---- MODULE Spec2Model ----
(***************************************************************************)
(* Draftly: the delimited-text parser (src/utils/csvParser.ts) and the     *)
(* rule-based job classifier (src/utils/localAnalyzer.ts).                 *)
(*                                                                         *)
(* Texts are TLA+ strings and are processed character by character, as    *)
(* the JavaScript does.  Offsets are 0-based as in JavaScript.             *)
(***************************************************************************)
EXTENDS Integers, Sequences, FiniteSets, TLC

(***************************************************************************)
(* JavaScript string primitives                                            *)
(***************************************************************************)
\* the element of a one-element set.  The({e : v \in {x}}) is e with v naming
\* the value of x, computed once: a local constant of the code
The(S) == CHOOSE v \in S : TRUE

Min2(a, b) == IF a < b THEN a ELSE b
Max2(a, b) == IF a > b THEN a ELSE b

\* s[i], or "" (undefined) past the end
charAt(s, i) == IF i >= 0 /\ i < Len(s) THEN SubSeq(s, i + 1, i + 1) ELSE ""

\* s.substring(a, b)
substring(s, a, b) ==
    LET lo == Max2(0, Min2(a, Len(s)))
        hi == Max2(lo, Min2(b, Len(s)))
    IN  SubSeq(s, lo + 1, hi)

UpperLetters == "ABCDEFGHIJKLMNOPQRSTUVWXYZ"
LowerLetters == "abcdefghijklmnopqrstuvwxyz"
LowerOf == [c \in {SubSeq(UpperLetters, k, k) : k \in 1..26} |->
               LET k == CHOOSE j \in 1..26 : SubSeq(UpperLetters, j, j) = c
               IN  SubSeq(LowerLetters, k, k)]
UpperOf == [c \in {SubSeq(LowerLetters, k, k) : k \in 1..26} |->
               LET k == CHOOSE j \in 1..26 : SubSeq(LowerLetters, j, j) = c
               IN  SubSeq(UpperLetters, k, k)]

toLowerCaseChar(c) == IF c \in DOMAIN LowerOf THEN LowerOf[c] ELSE c
toUpperCaseChar(c) == IF c \in DOMAIN UpperOf THEN UpperOf[c] ELSE c

\* s.toLowerCase(): each character mapped, the text taken by halves
RECURSIVE toLowerCase(_)
toLowerCase(s) ==
    The({IF Len(v) <= 1 THEN toLowerCaseChar(v)
         ELSE toLowerCase(substring(v, 0, Len(v) \div 2)) \o
              toLowerCase(substring(v, Len(v) \div 2, Len(v))) : v \in {s}})

\* s.toUpperCase(): each character mapped, the text taken by halves
RECURSIVE toUpperCase(_)
toUpperCase(s) ==
    The({IF Len(v) <= 1 THEN toUpperCaseChar(v)
         ELSE toUpperCase(substring(v, 0, Len(v) \div 2)) \o
              toUpperCase(substring(v, Len(v) \div 2, Len(v))) : v \in {s}})

\* s.indexOf(k, from), -1 when absent
\* (searched a window of offsets at a time, leftmost hit first)
RECURSIVE indexOf(_, _, _)
indexOf(s, k, from) ==
    IF from + Len(k) > Len(s) THEN -1
    ELSE LET last == Min2(from + 31, Len(s) - Len(k))
             hits == {p \in from..last : SubSeq(s, p + 1, p + Len(k)) = k}
         IN  IF hits # {} THEN CHOOSE p \in hits : \A q \in hits : p <= q
             ELSE indexOf(s, k, last + 1)

\* s.includes(k)
includes(s, k) == indexOf(s, k, 0) # -1

\* the characters the regular-expression class \s and String.prototype.trim
\* treat as white space (those of the model's alphabet)
SpaceChars == {" ", "\t", "\n", "\r"}
DigitChars == {"0", "1", "2", "3", "4", "5", "6", "7", "8", "9"}
\* the regular-expression "." matches anything but a line terminator
LineTerminators == {"\n", "\r"}
isSpace(c) == c \in SpaceChars

RECURSIVE trimStart(_)
trimStart(s) ==
    The({IF v # "" /\ isSpace(Head(v)) THEN trimStart(Tail(v)) ELSE v : v \in {s}})
RECURSIVE trimEnd(_)
trimEnd(s) ==
    The({IF v # "" /\ isSpace(charAt(v, Len(v) - 1))
         THEN trimEnd(substring(v, 0, Len(v) - 1)) ELSE v : v \in {s}})
trim(s) == trimEnd(trimStart(s))

\* the length of the longest run of characters of class cls that starts at p
RECURSIVE RunLength(_, _, _)
RunLength(s, p, cls) ==
    IF p < Len(s) /\ charAt(s, p) \in cls THEN 1 + RunLength(s, p + 1, cls) ELSE 0

DigitValue(c) == CHOOSE d \in 0..9 : SubSeq("0123456789", d + 1, d + 1) = c

\* parseInt of a string of decimal digits
RECURSIVE parseInt(_)
parseInt(s) ==
    IF s = "" THEN 0
    ELSE 10 * parseInt(substring(s, 0, Len(s) - 1)) + DigitValue(charAt(s, Len(s) - 1))

\* the decimal rendering of a non-negative integer in a template literal
RECURSIVE NumberToString(_)
NumberToString(n) ==
    IF n < 10 THEN SubSeq("0123456789", n + 1, n + 1)
    ELSE NumberToString(n \div 10) \o SubSeq("0123456789", (n % 10) + 1, (n % 10) + 1)

\* parts.join(sep)
RECURSIVE join(_, _)
join(parts, sep) ==
    IF parts = <<>> THEN ""
    ELSE IF Len(parts) = 1 THEN parts[1]
    ELSE parts[1] \o sep \o join(Tail(parts), sep)

(***************************************************************************)
(* src/utils/localAnalyzer.ts: keyword tables                              *)
(***************************************************************************)
ENTRY_LEVEL_KEYWORDS ==
    << "entry level", "entry-level", "junior", "jr", "fresher", "graduate",
       "recent graduate", "new grad", "associate", "trainee", "intern",
       "internship", "0-", "0-1 year", "0-2 year", "2+", "1+", "1-2 year",
       "no experience", "little experience", "beginner", "starting position",
       "career starter" >>

SENIOR_KEYWORDS ==
    << "senior", "lead", "principal", "architect", "manager", "director",
       "head of", "chief", "expert", "specialist", "3+ year", "4+ year",
       "5+ year", "6+ year", "7+ year", "8+ year", "9+ year", "10+ year",
       "minimum 3 year", "minimum 4 year", "minimum 5 year",
       "at least 3 year", "at least 4 year", "at least 5 year" >>

\* keyword.toLowerCase(), for each keyword of the two tables
EntryKeywordsLowered ==
    [k \in DOMAIN ENTRY_LEVEL_KEYWORDS |-> toLowerCase(ENTRY_LEVEL_KEYWORDS[k])]
SeniorKeywordsLowered ==
    [k \in DOMAIN SENIOR_KEYWORDS |-> toLowerCase(SENIOR_KEYWORDS[k])]

\* KEYWORDS.some(keyword => lowerDesc.includes(keyword.toLowerCase()))
someKeyword(loweredKeywords, lowerDesc) ==
    \E low \in {lowerDesc} :
        \E k \in DOMAIN loweredKeywords : includes(low, loweredKeywords[k])

(***************************************************************************)
(* EXPERIENCE_PATTERNS[0] = /at least\s+(\d+)\s+years?/gi                  *)
(* A match is [index, end, g1]; NoMatch when the pattern does not match.   *)
(***************************************************************************)
NoMatch == [index |-> -1, end |-> -1, g1 |-> ""]

\* the pattern tried at offset p of s; the flag i makes the literals
\* case-blind: they are compared with low, the lower-cased s
ExperienceMatchAt(s, low, p) ==
    LET a  == p + 8                           \* after "at least"
        w1 == RunLength(s, a, SpaceChars)      \* \s+
        d  == a + w1
        n  == RunLength(s, d, DigitChars)      \* (\d+)
        b  == d + n
        w2 == RunLength(s, b, SpaceChars)      \* \s+
        y  == b + w2
        e  == y + 4                            \* after "year"
    IN  IF /\ substring(low, p, a) = "at least"
           /\ w1 > 0 /\ n > 0 /\ w2 > 0
           /\ substring(low, y, e) = "year"
        THEN [index |-> p,
              end   |-> IF charAt(low, e) = "s" THEN e + 1 ELSE e,
              g1    |-> substring(s, d, b)]
        ELSE NoMatch

\* the matches a global pattern yields when scanning starts at offset from
RECURSIVE ExperienceMatchesFrom(_, _, _)
ExperienceMatchesFrom(s, low, from) ==
    The({IF hits = {} THEN <<>>
         ELSE The({<<m>> \o ExperienceMatchesFrom(s, low, m.end) :
                      m \in {ExperienceMatchAt(s, low,
                                 CHOOSE q \in hits : \A r \in hits : q <= r)}}) :
            hits \in {{p \in from..(Len(s) - 1) : ExperienceMatchAt(s, low, p) # NoMatch}}})

\* [...description.matchAll(pattern)]: matchAll scans with a copy of the
\* pattern that starts at the pattern's lastIndex
matchAll(s, patternLastIndex) ==
    The({ExperienceMatchesFrom(s, low, patternLastIndex) : low \in {toLowerCase(s)}})

\* lastIndexAfterMatchAll as pattern.test(description) would leave it: at the
\* end of the first match, or 0 when there is none
lastIndexAfterTest(s, patternLastIndex) ==
    LET ms == matchAll(s, patternLastIndex)
    IN  IF ms = <<>> THEN 0 ELSE ms[1].end

\* the pattern's lastIndex after description.matchAll(pattern): only the
\* copy advances, the shared pattern object is left as it was
lastIndexAfterMatchAll(s, patternLastIndex) == patternLastIndex

\* the loop over the matches: [max, min] of the years found
RECURSIVE YearsOver(_, _, _, _)
YearsOver(matches, k, maxYears, minYears) ==
    IF k > Len(matches) THEN [max |-> maxYears, min |-> minYears]
    ELSE LET g1 == matches[k].g1
             years == parseInt(g1)
         IN  IF g1 # ""
             THEN YearsOver(matches, k + 1, Max2(maxYears, years),
                            IF minYears = 0 THEN years ELSE Min2(minYears, years))
             ELSE YearsOver(matches, k + 1, maxYears, minYears)

(***************************************************************************)
(* Decision logic                                                          *)
(***************************************************************************)
ReasonEntryKeyword == "Contains entry-level keywords and no senior requirements"
ReasonSeniorKeyword == "Contains senior/experienced position keywords"
ReasonYearsOver(n) == "Requires " \o NumberToString(n) \o "+ years of experience"
ReasonYearsUnder(n) ==
    "Requires " \o NumberToString(n) \o " years or less - entry-level acceptable"
ReasonDefault == "No specific experience requirements mentioned - likely entry-level"

\* Decide with the first rule not asking for the absence of a senior keyword
Decide_EntryKeywordWins(hasEntryKeyword, hasSeniorKeyword, maxYearsRequired) ==
    IF hasEntryKeyword
    THEN [isEntryLevel |-> TRUE, reason |-> ReasonEntryKeyword]
    ELSE IF hasSeniorKeyword
    THEN [isEntryLevel |-> FALSE, reason |-> ReasonSeniorKeyword]
    ELSE IF maxYearsRequired > 2
    THEN [isEntryLevel |-> FALSE, reason |-> ReasonYearsOver(maxYearsRequired)]
    ELSE IF maxYearsRequired <= 2 /\ maxYearsRequired > 0
    THEN [isEntryLevel |-> TRUE, reason |-> ReasonYearsUnder(maxYearsRequired)]
    ELSE [isEntryLevel |-> TRUE, reason |-> ReasonDefault]

Decide(hasEntryKeyword, hasSeniorKeyword, maxYearsRequired) ==
    IF hasEntryKeyword /\ ~hasSeniorKeyword
    THEN [isEntryLevel |-> TRUE, reason |-> ReasonEntryKeyword]
    ELSE IF hasSeniorKeyword
    THEN [isEntryLevel |-> FALSE, reason |-> ReasonSeniorKeyword]
    ELSE IF maxYearsRequired > 2
    THEN [isEntryLevel |-> FALSE, reason |-> ReasonYearsOver(maxYearsRequired)]
    ELSE IF maxYearsRequired <= 2 /\ maxYearsRequired > 0
    THEN [isEntryLevel |-> TRUE, reason |-> ReasonYearsUnder(maxYearsRequired)]
    ELSE [isEntryLevel |-> TRUE, reason |-> ReasonDefault]

(***************************************************************************)
(* UserProfile: a JavaScript object, modelled as a function from the keys  *)
(* it has to strings.  A key the object lacks reads as undefined.          *)
(***************************************************************************)
ProfileFields ==
    {"name", "email", "phone", "portfolio", "linkedin", "figma", "resumeLink", "bio"}

\* if (profile.f): undefined and "" are falsy
Truthy(profile, f) == f \in DOMAIN profile /\ profile[f] # ""

\* `${profile.f}`: undefined is rendered as the text "undefined"
Interpolate(profile, f) == IF f \in DOMAIN profile THEN profile[f] ELSE "undefined"

(***************************************************************************)
(* generateEmail: role extraction                                          *)
(*   /(?:position|role|job|opening)[\s:]+(.{10,50}?)(?:\.|,|at|in|\n)/i   *)
(***************************************************************************)
RoleWords == << "position", "role", "job", "opening" >>
DefaultRole == "UI/UX Designer"
NoRole == [found |-> FALSE, capture |-> ""]

\* (?:\.|,|at|in|\n) at offset e; low is the lower-cased s (the flag i)
RoleStopAt(low, e) ==
    \/ charAt(low, e) \in {".", ",", "\n"}
    \/ substring(low, e, e + 2) \in {"at", "in"}

\* the number of characters from p on that "." matches
RECURSIVE DotRunLength(_, _)
DotRunLength(s, p) ==
    IF p < Len(s) /\ charAt(s, p) \notin LineTerminators
    THEN 1 + DotRunLength(s, p + 1) ELSE 0

\* [\s:]+(.{10,50}?)(stop) tried at offset q: the greedy [\s:]+ gives back
\* characters only when the rest fails, the lazy group takes the fewest
RoleTailAt(s, low, q) ==
    LET run == RunLength(s, q, SpaceChars \cup {":"})
        Lens(k) == {n \in 10..Min2(50, DotRunLength(s, q + k)) : RoleStopAt(low, q + k + n)}
        ks == {k \in 1..run : Lens(k) # {}}
    IN  IF ks = {} THEN NoRole
        ELSE LET k == CHOOSE x \in ks : \A y \in ks : x >= y
                 n == CHOOSE x \in Lens(k) : \A y \in Lens(k) : x <= y
             IN  [found |-> TRUE, capture |-> substring(s, q + k, q + k + n)]

\* the whole pattern tried at offset p: the alternatives in their order
RoleMatchAt(s, low, p) ==
    LET ok == {w \in DOMAIN RoleWords :
                  /\ substring(low, p, p + Len(RoleWords[w])) = RoleWords[w]
                  /\ RoleTailAt(s, low, p + Len(RoleWords[w])).found}
    IN  IF ok = {} THEN NoRole
        ELSE LET w == CHOOSE x \in ok : \A y \in ok : x <= y
             IN  RoleTailAt(s, low, p + Len(RoleWords[w]))

\* description.match(pattern): the leftmost match
roleMatch(s) ==
    The({The({IF hits = {} THEN NoRole
              ELSE RoleMatchAt(s, low, CHOOSE p \in hits : \A q \in hits : p <= q) :
                 hits \in {{p \in 0..(Len(s) - 1) : RoleMatchAt(s, low, p).found}}}) :
            low \in {toLowerCase(s)}})

extractRole(description) ==
    The({IF m.found THEN trim(m.capture) ELSE DefaultRole :
            m \in {roleMatch(description)}})

(***************************************************************************)
(* generateEmail: field detection                                          *)
(***************************************************************************)
DefaultField == "your organization"

\* detectField with the design vocabulary tried before the software one
detectField_DesignFirst(description) ==
    The({
        IF includes(lowerDesc, "design") \/ includes(lowerDesc, "ui")
           \/ includes(lowerDesc, "ux")
        THEN "design"
        ELSE IF includes(lowerDesc, "software") \/ includes(lowerDesc, "developer")
                \/ includes(lowerDesc, "engineer")
        THEN "software development"
        ELSE IF includes(lowerDesc, "marketing") \/ includes(lowerDesc, "digital marketing")
        THEN "marketing"
        ELSE IF includes(lowerDesc, "data") \/ includes(lowerDesc, "analyst")
        THEN "data analytics"
        ELSE IF includes(lowerDesc, "sales")
        THEN "sales"
        ELSE DefaultField :
            lowerDesc \in {toLowerCase(description)}})

detectField(description) ==
    The({
        IF includes(lowerDesc, "software") \/ includes(lowerDesc, "developer")
           \/ includes(lowerDesc, "engineer")
        THEN "software development"
        ELSE IF includes(lowerDesc, "design") \/ includes(lowerDesc, "ui")
                \/ includes(lowerDesc, "ux")
        THEN "design"
        ELSE IF includes(lowerDesc, "marketing") \/ includes(lowerDesc, "digital marketing")
        THEN "marketing"
        ELSE IF includes(lowerDesc, "data") \/ includes(lowerDesc, "analyst")
        THEN "data analytics"
        ELSE IF includes(lowerDesc, "sales")
        THEN "sales"
        ELSE DefaultField :
            lowerDesc \in {toLowerCase(description)}})

(***************************************************************************)
(* generateSubjectLine                                                     *)
(***************************************************************************)
\* role.replace(/position|role|job|opening/gi, "")
\* the words start with different letters, so at most one of them matches at
\* an offset; the leftmost match is removed, then the rest is searched
RECURSIVE removeRoleWords(_)
removeRoleWords(s) ==
    The({The({IF at = {} THEN v
              ELSE The({substring(v, 0, p) \o
                        removeRoleWords(substring(v, p + Len(RoleWords[
                            CHOOSE w \in DOMAIN RoleWords :
                                indexOf(low, RoleWords[w], 0) = p]), Len(v))) :
                           p \in {CHOOSE x \in at : \A y \in at : x <= y}}) :
                 at \in {{indexOf(low, RoleWords[w], 0) : w \in DOMAIN RoleWords} \ {-1}}}) :
            v \in {s}, low \in {toLowerCase(s)}})

generateSubjectLine(role, profile) ==
    The({IF Truthy(profile, "name")
         THEN "Application for " \o cleanRole \o " Position - " \o
              Interpolate(profile, "name")
         ELSE "Application for " \o cleanRole \o " Position" :
            cleanRole \in {trim(removeRoleWords(role))}})

(***************************************************************************)
(* generateEmailBody                                                       *)
(***************************************************************************)
Greeting == "Dear Hiring Team,"

GenericBio ==
    "creative professional with a passion for building intuitive, user-friendly solutions"

\* profile.bio || `creative professional ...`
openingParagraph(role, profile) ==
    "I am writing to express my interest in the " \o role \o " position. As a " \o
    (IF Truthy(profile, "bio") THEN profile["bio"] ELSE GenericBio) \o
    ", I am eager to contribute my skills to your team and grow within your " \o
    "fast-paced environment."

DesignSkills ==
    "I have a strong foundation in creating wireframes, prototypes," \o
    " and mockups, and I am highly proficient in design tools like" \o
    " figma, framer, visily. I am particularly excited about" \o
    " bringing my experience and creativity to this role and the" \o
    " opportunity to iterate quickly while collaborating with your" \o
    " team to ship high-quality work. My focus is on continuous" \o
    " learning and applying a user-centered approach to every" \o
    " project I undertake."

SoftwareSkills ==
    "I have a strong foundation in software development and" \o
    " problem-solving, and I am proficient in modern development" \o
    " tools and frameworks. I am particularly excited about" \o
    " bringing my technical skills and creativity to this role and" \o
    " the opportunity to collaborate with your team to build" \o
    " high-quality products. My focus is on continuous learning and" \o
    " writing clean, maintainable code."

DataSkills ==
    "I have a strong foundation in data analysis, visualization," \o
    " and deriving actionable insights. I am proficient in" \o
    " analytical tools and methodologies. I am particularly excited" \o
    " about bringing my analytical mindset to this role and the" \o
    " opportunity to work with your team on data-driven decision" \o
    " making. My focus is on continuous learning and applying best" \o
    " practices in data analysis."

GenericSkills ==
    "I have a strong foundation in my field and am eager to apply" \o
    " my skills and knowledge to real-world challenges. I am" \o
    " particularly excited about bringing my dedication and fresh" \o
    " perspective to this role and the opportunity to collaborate" \o
    " with your team. My focus is on continuous learning and" \o
    " delivering high-quality results."

skillsParagraph(field) ==
    IF includes(field, "design") \/ includes(field, "ui") \/ includes(field, "ux")
    THEN DesignSkills
    ELSE IF includes(field, "software") \/ includes(field, "developer")
            \/ includes(field, "engineer")
    THEN SoftwareSkills
    ELSE IF includes(field, "data") \/ includes(field, "analyst")
    THEN DataSkills
    ELSE GenericSkills

PortfolioLine(profile) ==
    "You can explore my work through my portfolio here: " \o
    Interpolate(profile, "portfolio") \o "."
FigmaLine(profile) == "View my Figma designs: " \o Interpolate(profile, "figma") \o "."
ResumeLine(profile) ==
    "I have also attached my resume for your review: " \o
    Interpolate(profile, "resumeLink") \o "."

\* links with the Figma line pushed without the test of profile.figma
links_FigmaAlways(profile) ==
    (IF Truthy(profile, "portfolio") THEN <<PortfolioLine(profile)>> ELSE <<>>) \o
    <<FigmaLine(profile)>> \o
    (IF Truthy(profile, "resumeLink") THEN <<ResumeLine(profile)>> ELSE <<>>)

\* the links array after the three conditional pushes
links(profile) ==
    (IF Truthy(profile, "portfolio") THEN <<PortfolioLine(profile)>> ELSE <<>>) \o
    (IF Truthy(profile, "figma") THEN <<FigmaLine(profile)>> ELSE <<>>) \o
    (IF Truthy(profile, "resumeLink") THEN <<ResumeLine(profile)>> ELSE <<>>)

linksSection(profile) ==
    The({IF Len(ls) > 0 THEN join(ls, "\n\n") ELSE "" : ls \in {links(profile)}})

Closing ==
    "Thank you for your time and consideration. I look forward to" \o
    " the possibility of discussing how my passion and skills can" \o
    " benefit your team."

\* nameGuard with the test of profile.name left out
nameGuard_Always(profile) == TRUE

\* if (profile.name), the guard of profile.name.toUpperCase()
nameGuard(profile) == Truthy(profile, "name")

signoff(profile) ==
    "Best regards," \o
    (IF nameGuard(profile)
     THEN "\n" \o (IF "name" \in DOMAIN profile THEN toUpperCase(profile["name"]) ELSE "")
     ELSE "") \o
    (IF Truthy(profile, "phone") THEN "\n" \o Interpolate(profile, "phone") ELSE "") \o
    (IF Truthy(profile, "email") THEN "\n" \o Interpolate(profile, "email") ELSE "") \o
    (IF Truthy(profile, "linkedin") THEN " | LinkedIn" ELSE "")

\* bodyParts with the links section pushed whether it is empty or not
bodyParts_LinksAlways(role, field, profile) ==
    << Greeting, openingParagraph(role, profile), skillsParagraph(field),
       linksSection(profile), Closing, signoff(profile) >>

\* the parts array: the links section is pushed only when it is non-empty
bodyParts(role, field, profile) ==
    The({<< Greeting, openingParagraph(role, profile), skillsParagraph(field) >> \o
         (IF section # "" THEN <<section>> ELSE <<>>) \o
         << Closing, signoff(profile) >> : section \in {linksSection(profile)}})

generateEmailBody(role, field, profile) ==
    The({join(parts, "\n\n") : parts \in {bodyParts(role, field, profile)}})

\* calling toUpperCase on undefined raises a TypeError
generateEmailBodyThrows(profile) == nameGuard(profile) /\ "name" \notin DOMAIN profile

generateEmail(description, profile) ==
    The({[emailSubject |-> generateSubjectLine(role, profile),
          emailBody    |-> generateEmailBody(role, field, profile)] :
            role \in {extractRole(description)}, field \in {detectField(description)}})

(***************************************************************************)
(* analyzeJobDescriptionLocal                                              *)
(***************************************************************************)
\* lines 75-126: the locals of one call, the pattern scanned from the
\* lastIndex the shared pattern object has when the call is made
analysisLocals(description, patternLastIndex) ==
    The({The({The({[hasEntryKeyword  |-> hasEntryKeyword,
                    hasSeniorKeyword |-> hasSeniorKeyword,
                    maxYearsRequired |-> years.max,
                    minYearsRequired |-> years.min,
                    isEntryLevel     |-> decision.isEntryLevel,
                    reason           |-> decision.reason] :
                decision \in {Decide(hasEntryKeyword, hasSeniorKeyword, years.max)}}) :
            hasEntryKeyword \in {someKeyword(EntryKeywordsLowered, lowerDesc)},
            hasSeniorKeyword \in {someKeyword(SeniorKeywordsLowered, lowerDesc)},
            years \in {The({YearsOver(matches, 1, 0, 0) :
                               matches \in {matchAll(description, patternLastIndex)}})}}) :
        lowerDesc \in {toLowerCase(description)}})

Threw == [kind |-> "throw"]

\* analysisResult with the email generated whatever the decision
analysisResult_EmailAlways(l, description, profile) ==
    The({[kind |-> "return", isEntryLevel |-> l.isEntryLevel,
          emailSubject |-> mail.emailSubject, emailBody |-> mail.emailBody,
          reason |-> l.reason] : mail \in {generateEmail(description, profile)}})

\* analysisResult that rejects the job when the profile has no name
analysisResult_NeedsName(l, description, profile) ==
    IF l.isEntryLevel /\ "name" \in DOMAIN profile /\ profile["name"] # ""
    THEN The({[kind |-> "return", isEntryLevel |-> TRUE,
               emailSubject |-> mail.emailSubject, emailBody |-> mail.emailBody,
               reason |-> l.reason] : mail \in {generateEmail(description, profile)}})
    ELSE [kind |-> "return", isEntryLevel |-> FALSE,
          emailSubject |-> "", emailBody |-> "", reason |-> l.reason]

\* lines 128-144: what the call returns, given its locals
analysisResult(l, description, profile) ==
    IF l.isEntryLevel
    THEN IF generateEmailBodyThrows(profile) THEN Threw
         ELSE The({[kind |-> "return", isEntryLevel |-> TRUE,
                    emailSubject |-> mail.emailSubject, emailBody |-> mail.emailBody,
                    reason |-> l.reason] : mail \in {generateEmail(description, profile)}})
    ELSE [kind |-> "return", isEntryLevel |-> FALSE,
          emailSubject |-> "", emailBody |-> "", reason |-> l.reason]

analyzeJobDescriptionLocal(description, profile, patternLastIndex) ==
    The({analysisResult(l, description, profile) :
            l \in {analysisLocals(description, patternLastIndex)}})

(***************************************************************************)
(* batchAnalyzeLocal: jobs.map(job => analyzeJobDescriptionLocal(...))      *)
(***************************************************************************)
\* the callback of the map, called with the pattern as the calls before left it
mapCallback(job, profile, patternLastIndex) ==
    analyzeJobDescriptionLocal(job.description, profile, patternLastIndex)

\* appendResult with the result put in front of those of the jobs before
appendResult_Front(mapped, r) == <<r>> \o mapped

\* Array.prototype.map stores the callback's result at the job's index
appendResult(mapped, r) == Append(mapped, r)

(***************************************************************************)
(* src/utils/csvParser.ts: robustCSVParser                                 *)
(***************************************************************************)
\* (firstLine.match(/c/g) || []).length
RECURSIVE countChar(_, _)
countChar(s, c) ==
    IF s = "" THEN 0 ELSE (IF Head(s) = c THEN 1 ELSE 0) + countChar(Tail(s), c)

\* text.split('\n')[0]
firstLineOf(text) ==
    LET nl == indexOf(text, "\n", 0)
    IN  IF nl = -1 THEN text ELSE substring(text, 0, nl)

\* detectDelimiter with a tie going to the semicolon, then to the tab
detectDelimiter_TiesLost(text) ==
    LET firstLine == firstLineOf(text)
        commaCount == countChar(firstLine, ",")
        semiCount == countChar(firstLine, ";")
        tabCount == countChar(firstLine, "\t")
        d1 == IF semiCount >= commaCount /\ semiCount >= tabCount THEN ";" ELSE ","
    IN  IF tabCount >= commaCount /\ tabCount > semiCount THEN "\t" ELSE d1

detectDelimiter(text) ==
    LET firstLine == firstLineOf(text)
        commaCount == countChar(firstLine, ",")
        semiCount == countChar(firstLine, ";")
        tabCount == countChar(firstLine, "\t")
        d1 == IF semiCount > commaCount /\ semiCount > tabCount THEN ";" ELSE ","
    IN  IF tabCount > commaCount /\ tabCount > semiCount THEN "\t" ELSE d1

\* the tokenizer's variables before the loop
scanInit == [i |-> 0, inQuotes |-> FALSE, col |-> "", row |-> <<>>, result |-> <<>>]

\* scanStep with no case for the doubled quote: every quote toggles the mode
scanStep_NoEscapedQuote(st, text, delim) ==
    LET char == charAt(text, st.i)
        nextChar == charAt(text, st.i + 1)
    IN  IF char = "\""
        THEN [st EXCEPT !.inQuotes = ~st.inQuotes, !.i = st.i + 1]
        ELSE IF st.inQuotes
        THEN [st EXCEPT !.col = st.col \o char, !.i = st.i + 1]
        ELSE IF char = delim
        THEN [st EXCEPT !.row = Append(st.row, st.col), !.col = "", !.i = st.i + 1]
        ELSE IF char = "\n" \/ char = "\r"
        THEN [st EXCEPT !.result = Append(st.result, Append(st.row, st.col)),
                        !.row = <<>>, !.col = "",
                        !.i = IF char = "\r" /\ nextChar = "\n"
                              THEN st.i + 2 ELSE st.i + 1]
        ELSE [st EXCEPT !.col = st.col \o char, !.i = st.i + 1]

\* one iteration of the loop over the characters, the i++ of the for included
scanStep(st, text, delim) ==
    LET char == charAt(text, st.i)
        nextChar == charAt(text, st.i + 1)
    IN  IF st.inQuotes
        THEN IF char = "\"" /\ nextChar = "\""
             THEN [st EXCEPT !.col = st.col \o "\"", !.i = st.i + 2]
             ELSE IF char = "\""
             THEN [st EXCEPT !.inQuotes = FALSE, !.i = st.i + 1]
             ELSE [st EXCEPT !.col = st.col \o char, !.i = st.i + 1]
        ELSE IF char = "\""
             THEN [st EXCEPT !.inQuotes = TRUE, !.i = st.i + 1]
             ELSE IF char = delim
             THEN [st EXCEPT !.row = Append(st.row, st.col), !.col = "", !.i = st.i + 1]
             ELSE IF char = "\n" \/ char = "\r"
             THEN [st EXCEPT !.result = Append(st.result, Append(st.row, st.col)),
                             !.row = <<>>, !.col = "",
                             !.i = IF char = "\r" /\ nextChar = "\n"
                                   THEN st.i + 2 ELSE st.i + 1]
             ELSE [st EXCEPT !.col = st.col \o char, !.i = st.i + 1]

\* the last field and row, when the text does not end in a line boundary
scanFlush(st) ==
    IF Len(st.row) > 0 \/ st.col # ""
    THEN Append(st.result, Append(st.row, st.col))
    ELSE st.result

RECURSIVE scanFrom(_, _, _)
scanFrom(st, text, delim) ==
    IF st.i >= Len(text) THEN st ELSE scanFrom(scanStep(st, text, delim), text, delim)

robustCSVParser(text) == scanFlush(scanFrom(scanInit, text, detectDelimiter(text)))

(***************************************************************************)
(* src/utils/csvParser.ts: parseCSV                                        *)
(* A RawJobData object is a function from its keys to strings; a key whose *)
(* value is undefined is left out of the domain.                           *)
(***************************************************************************)
Returns(records) == [kind |-> "return", records |-> records]
Throws(message) == [kind |-> "throw", message |-> message]

\* headers.indexOf(name)
headerIndexOf(headers, name) ==
    LET hits == {k \in DOMAIN headers : headers[k] = name}
    IN  IF hits = {} THEN -1 ELSE (CHOOSE k \in hits : \A j \in hits : k <= j) - 1

\* h.trim().toLowerCase()
lowerTrim(h) == toLowerCase(trim(h))

\* cellOrEmpty with the trim() left out
cellOrEmpty_Untrimmed(r, index) == IF index + 1 \in DOMAIN r THEN r[index + 1] ELSE ""

\* row[index]?.trim() || ""
cellOrEmpty(r, index) == IF index + 1 \in DOMAIN r THEN trim(r[index + 1]) ELSE ""

\* phoneIndex !== -1 ? row[phoneIndex]?.trim() : "", as the keys it defines
phoneOf(r, phoneIndex) ==
    IF phoneIndex # -1
    THEN IF phoneIndex + 1 \in DOMAIN r
         THEN [k \in {"phone"} |-> trim(r[phoneIndex + 1])]
         ELSE <<>>
    ELSE [k \in {"phone"} |-> ""]

\* recordOf with the email read from the description's column and back
recordOf_Swapped(r, emailIndex, phoneIndex, descIndex) ==
    LET ph == phoneOf(r, phoneIndex)
    IN  [k \in {"email", "description"} \cup DOMAIN ph |->
            IF k = "email" THEN cellOrEmpty(r, descIndex)
            ELSE IF k = "description" THEN cellOrEmpty(r, emailIndex)
            ELSE ph[k]]

recordOf(r, emailIndex, phoneIndex, descIndex) ==
    LET ph == phoneOf(r, phoneIndex)
    IN  [k \in {"email", "description"} \cup DOMAIN ph |->
            IF k = "email" THEN cellOrEmpty(r, emailIndex)
            ELSE IF k = "description" THEN cellOrEmpty(r, descIndex)
            ELSE ph[k]]

\* skipsRow that looks at the first field only, whatever the row's length
skipsRow_FirstFieldEmpty(r) == Len(r) = 0 \/ r[1] = ""

\* if (row.length === 0 || (row.length === 1 && row[0] === "")) continue
skipsRow(r) == Len(r) = 0 \/ (Len(r) = 1 /\ r[1] = "")

RECURSIVE recordsFrom(_, _, _, _, _)
recordsFrom(rs, k, emailIndex, phoneIndex, descIndex) ==
    IF k > Len(rs) THEN <<>>
    ELSE (IF skipsRow(rs[k]) THEN <<>>
          ELSE <<recordOf(rs[k], emailIndex, phoneIndex, descIndex)>>)
         \o recordsFrom(rs, k + 1, emailIndex, phoneIndex, descIndex)

SchemaMessage == "CSV must contain 'Emails' and 'Description' columns. Found: "

\* lines 16-43: from the tokenizer's rows to the records
mapRows(rs) ==
    IF Len(rs) < 2 THEN Returns(<<>>)
    ELSE LET headers == [k \in DOMAIN rs[1] |-> lowerTrim(rs[1][k])]
             emailIndex == headerIndexOf(headers, "emails")
             phoneIndex == headerIndexOf(headers, "phone numbers")
             descIndex == headerIndexOf(headers, "description")
         IN  IF emailIndex = -1 \/ descIndex = -1
             THEN Throws(SchemaMessage \o join(rs[1], ", "))
             ELSE Returns(recordsFrom(rs, 2, emailIndex, phoneIndex, descIndex))

parseCSV(csvText) ==
    IF trim(csvText) = "" THEN Returns(<<>>) ELSE mapRows(robustCSVParser(csvText))

(***************************************************************************)
(* Inputs of the classifier                                                *)
(***************************************************************************)
MaxFrags == 2
MaxCalls == 2
MaxOthers == 1

Fragments ==
    << "Junior ", "SENIOR ", "At Least 2 Years ", "at least  12 year ",
       "lead intern ", "Role: Data Analyst, " >>

ExampleDescriptions ==
    { "",
      "Looking for a Senior Software Engineer, 5+ years required",
      "Entry level Marketing Assistant, no experience necessary",
      "Opening:  UX design trainee in Pune.\nAT LEAST\t007 YEARS",
      "Sales job, at least 4 years at least 1 year",
      "we need at least 10 years",
      "Junior UI Developer",
      "Marketing DATA intern",
      "Sales intern",
      "Trainee for UX and data analyst work" }

RECURSIVE FragmentTexts(_)
FragmentTexts(n) ==
    IF n = 0 THEN {""}
    ELSE FragmentTexts(n - 1) \cup
         {t \o Fragments[k] : t \in FragmentTexts(n - 1), k \in DOMAIN Fragments}

Descriptions == ExampleDescriptions \cup FragmentTexts(MaxFrags)

SampleProfile ==
    [name |-> "Asha Rao", email |-> "asha@mail.com", phone |-> "+91 98765 43210",
     portfolio |-> "asha.dev", linkedin |-> "linkedin.com/asha",
     figma |-> "figma.com/@asha", resumeLink |-> "bit.ly/asha-cv",
     bio |-> "final-year design student"]

\* a profile with the fields of filled set; the others are "" or absent
MakeProfile(filled, absent) ==
    [f \in (IF absent THEN filled ELSE ProfileFields) |->
        IF f \in filled THEN SampleProfile[f] ELSE ""]

Profiles == {MakeProfile(filled, absent) : filled \in SUBSET ProfileFields,
                                           absent \in BOOLEAN}
CoreProfiles ==
    {MakeProfile(ProfileFields, FALSE), MakeProfile({}, TRUE), MakeProfile({}, FALSE)}
CoreDescriptions == {"Role: Data Analyst, Junior "}

AnalyzerInputs ==
    (Descriptions \X CoreProfiles) \cup (CoreDescriptions \X Profiles)

\* descriptions of the calls made between two calls with the same input
OtherDescriptions == {"", "at least 4 years at least  12 year ", "AT LEAST 2 YEARS"}

(***************************************************************************)
(* State                                                                   *)
(***************************************************************************)
VARIABLES
    description,   \* the description analyzeJobDescriptionLocal is called with
    profile,       \* the profile it is called with
    lastIndex,     \* EXPERIENCE_PATTERNS[0].lastIndex, shared by all calls
    calls,         \* the calls made so far with (description, profile)
    others,        \* the calls made so far with another description
    locals,        \* the locals of the last call with (description, profile)
    result,        \* what that call returned
    firstResult    \* what the first call with (description, profile) returned

avars == <<description, profile, lastIndex, calls, others, locals, result, firstResult>>

VARIABLES
    csvText,       \* the text parseCSV is called with
    source,        \* the table and layout the text was written from, if any
    cpc,           \* where the call of parseCSV is: "start", "scan" or "done"
    delimiter,     \* the delimiter robustCSVParser detected
    scan,          \* the tokenizer's loop variables i, inQuotes, col, row, result
    parsed         \* what parseCSV returned or threw

cvars == <<csvText, source, cpc, delimiter, scan, parsed>>

VARIABLES
    jobs,          \* the jobs batchAnalyzeLocal is called with
    mapped,        \* the results of the jobs the map has visited
    bpc,           \* where the call of batchAnalyzeLocal is: "map" or "done"
    batch          \* what batchAnalyzeLocal returned

bvars == <<jobs, mapped, bpc, batch>>

VARIABLES
    appJobs,       \* the component's jobs state: the AnalyzedJob objects shown
    stats,         \* the component's stats state
    isProcessing,  \* the component's isProcessing state
    pendingJobs,   \* the jobs the loop of processAllJobs has still to visit
    appUploads     \* the files uploaded so far

uvars == <<appJobs, stats, isProcessing, pendingJobs, appUploads>>

VARIABLES
    apiJobs,       \* the API-backed component's jobs state
    apiStats,      \* its stats state
    apiProcessing, \* its isProcessing state
    apiUploads,    \* the files uploaded so far
    apc,           \* for each run of processAllJobs, where it is
    snapshot,      \* the jobs array that run closed over
    cursor,        \* the position of its for loop in that array
    retries,       \* its local retries
    success,       \* its local success
    delay,         \* the delay computed by its last retry
    attempts,      \* the calls of analyzeJobDescription it made for its current job
    waited,        \* the delays it awaited between those calls
    lastError      \* the error the last of those calls rejected with, if any

gvars == <<apiJobs, apiStats, apiProcessing, apiUploads, apc, snapshot, cursor, retries,
           success, delay, attempts, waited, lastError>>

VARIABLES
    users,         \* localStorage['juno_users'], parsed: the array of accounts
    session,       \* sessionStorage['juno_current_session'], parsed, or none
    now,           \* what Date.now() returns
    ret,           \* what that call returned
    firstPassword, \* for each email, the password of its first successful signUp
    writtenAt      \* the time of the createSession call that wrote the session

svars == <<users, session, now, ret, firstPassword, writtenAt>>

vars == <<avars, cvars, bvars, uvars, gvars, svars>>

NoResult == [kind |-> "none"]

\* no classifier call is being followed
AnalyzeIdle ==
    /\ description = "" /\ profile = <<>> /\ lastIndex = 0 /\ calls = 0 /\ others = 0
    /\ locals = NoResult /\ result = NoResult /\ firstResult = NoResult

AnalyzeInit ==
    /\ \E in \in AnalyzerInputs : description = in[1] /\ profile = in[2]
    /\ lastIndex = 0
    /\ calls = 0
    /\ others = 0
    /\ locals = NoResult
    /\ result = NoResult
    /\ firstResult = NoResult

\* a call analyzeJobDescriptionLocal(description, profile)
Analyze ==
    /\ calls < MaxCalls
    /\ \E l \in {analysisLocals(description, lastIndex)} :
         \E r \in {analysisResult(l, description, profile)} :
           /\ locals' = l
           /\ result' = r
           /\ firstResult' = IF firstResult = NoResult THEN r ELSE firstResult
    /\ lastIndex' = lastIndexAfterMatchAll(description, lastIndex)
    /\ calls' = calls + 1
    /\ UNCHANGED <<description, profile, others>>
    /\ UNCHANGED <<cvars, bvars, uvars, gvars, svars>>

\* a call with another description, made before or between those calls
AnalyzeOther ==
    /\ others < MaxOthers
    /\ \E d \in OtherDescriptions :
          lastIndex' = lastIndexAfterMatchAll(d, lastIndex)
    /\ others' = others + 1
    /\ UNCHANGED <<description, profile, calls, locals, result, firstResult>>
    /\ UNCHANGED <<cvars, bvars, uvars, gvars, svars>>

(***************************************************************************)
(* The call batchAnalyzeLocal(jobs, profile), one job of the map at a time *)
(***************************************************************************)
MaxJobs == 2

JobDescriptions ==
    {"", "Junior ", "SENIOR ", "we need at least 10 years",
     "Role: Data Analyst, Junior ", "Sales job, at least 4 years at least 1 year"}

RECURSIVE JobLists(_)
JobLists(n) ==
    IF n = 0 THEN {<<>>}
    ELSE JobLists(n - 1) \cup
         {Append(js, [description |-> d]) : js \in JobLists(n - 1), d \in JobDescriptions}

\* no call of batchAnalyzeLocal is being followed
BatchIdle == jobs = <<>> /\ mapped = <<>> /\ bpc = "idle" /\ batch = NoResult

BatchInit ==
    /\ jobs \in JobLists(MaxJobs)
    /\ profile \in CoreProfiles
    /\ mapped = <<>>
    /\ bpc = "map"
    /\ batch = NoResult
    /\ lastIndex = 0
    /\ description = "" /\ calls = 0 /\ others = 0
    /\ locals = NoResult /\ result = NoResult /\ firstResult = NoResult

\* the map calls the callback with the next job; an exception ends the call
MapJob ==
    /\ bpc = "map" /\ Len(mapped) < Len(jobs)
    /\ \E r \in {mapCallback(jobs[Len(mapped) + 1], profile, lastIndex)} :
          IF r = Threw
          THEN bpc' = "done" /\ batch' = Threw /\ UNCHANGED mapped
          ELSE mapped' = appendResult(mapped, r) /\ UNCHANGED <<bpc, batch>>
    /\ lastIndex' = lastIndexAfterMatchAll(jobs[Len(mapped) + 1].description, lastIndex)
    /\ UNCHANGED <<jobs, profile, description, calls, others, locals, result, firstResult>>
    /\ UNCHANGED <<cvars, uvars, gvars, svars>>

\* the map has visited every job: its array is returned
BatchReturn ==
    /\ bpc = "map" /\ Len(mapped) = Len(jobs)
    /\ bpc' = "done"
    /\ batch' = [kind |-> "return", results |-> mapped]
    /\ UNCHANGED <<jobs, mapped>>
    /\ UNCHANGED <<avars, cvars, uvars, gvars, svars>>

BatchNext == MapJob \/ BatchReturn

(***************************************************************************)
(* src/unnamed/part_003: the dashboard with local analysis.  A step is one *)
(* run of an event handler, or the part of processAllJobs between awaits.  *)
(***************************************************************************)
UploadDescriptions == {"Junior ", "SENIOR ", "we need at least 10 years"}

\* handleFileUpload, lines 83-91: the job made of the i-th record
newJob(d, i) ==
    [email |-> "hr@x.io", description |-> d, id |-> i,
     isEntryLevel |-> FALSE, processing |-> FALSE, status |-> "pending"]

RECURSIVE UploadedJobs(_)
UploadedJobs(n) ==
    IF n = 0 THEN {<<>>}
    ELSE UploadedJobs(n - 1) \cup
         {Append(js, newJob(d, Len(js))) : js \in UploadedJobs(n - 1),
                                           d \in UploadDescriptions}

MaxUploads == 2

\* the jobs of the n-th later upload: Date.now() differs from upload to upload
uploadedAt(js, n) == [k \in DOMAIN js |-> [js[k] EXCEPT !["id"] = n * (MaxJobs + 1) + js[k]["id"]]]

\* { ...j, ...updates }
Merge(j, updates) ==
    [k \in DOMAIN j \cup DOMAIN updates |-> IF k \in DOMAIN updates THEN updates[k] ELSE j[k]]

\* updateJobData: prev.map(j => j.id === id ? { ...j, ...updates } : j)
updateJobData(js, id, updates) ==
    [k \in DOMAIN js |-> IF js[k]["id"] = id THEN Merge(js[k], updates) ELSE js[k]]

\* lines 135-141: the updates regenerateEmailForSkipped makes from the result
regenerateUpdates(r) ==
    [status |-> "completed", isEntryLevel |-> TRUE,
     emailSubject |-> r.emailSubject, emailBody |-> r.emailBody,
     rejectionReason |-> "Manually approved by user"]

\* lines 178-185: the updates processAllJobs makes from the result
processedUpdates(r) ==
    [status |-> IF r.isEntryLevel THEN "completed" ELSE "skipped",
     isEntryLevel |-> r.isEntryLevel,
     emailSubject |-> r.emailSubject, emailBody |-> r.emailBody,
     rejectionReason |-> r.reason, processing |-> FALSE]

\* lines 203-207: the updates of the catch block
failedUpdates ==
    [status |-> "error", processing |-> FALSE, rejectionReason |-> "Analysis failed"]

isPending(j) == j["status"] = "pending" \/ j["status"] = "error"

\* the dashboard is not being followed
AppIdle ==
    /\ appJobs = <<>> /\ stats = [total |-> 0, entryLevel |-> 0, skipped |-> 0]
    /\ isProcessing = FALSE /\ pendingJobs = <<>> /\ appUploads = 0

\* the state after handleFileUpload
AppInit ==
    /\ appJobs \in UploadedJobs(MaxJobs)
    /\ stats = [total |-> Len(appJobs), entryLevel |-> 0, skipped |-> 0]
    /\ isProcessing = FALSE
    /\ pendingJobs = <<>>
    /\ appUploads = 1
    /\ profile \in CoreProfiles
    /\ lastIndex = 0
    /\ description = "" /\ calls = 0 /\ others = 0
    /\ locals = NoResult /\ result = NoResult /\ firstResult = NoResult

\* processAllJobs up to its loop; its button is disabled while processing
\* and when no job is pending
StartProcessing ==
    /\ ~isProcessing /\ \E k \in DOMAIN appJobs : isPending(appJobs[k])
    /\ ~(Len(appJobs) = 0 \/ isProcessing)
    /\ isProcessing' = TRUE
    /\ pendingJobs' = SelectSeq(appJobs, isPending)
    /\ UNCHANGED <<appJobs, stats, appUploads>>
    /\ UNCHANGED <<avars, cvars, bvars, gvars, svars>>

\* one iteration of the loop of lines 170-209, up to its await
ProcessJob ==
    /\ isProcessing /\ pendingJobs # <<>>
    /\ \E job \in {Head(pendingJobs)} :
       \E r \in {analyzeJobDescriptionLocal(job["description"], profile, lastIndex)} :
          /\ IF r = Threw
             THEN /\ appJobs' = updateJobData(appJobs, job["id"], failedUpdates)
                  /\ UNCHANGED stats
             ELSE /\ appJobs' = updateJobData(appJobs, job["id"], processedUpdates(r))
                  /\ stats' = IF r.isEntryLevel
                               THEN [stats EXCEPT !.entryLevel = @ + 1]
                               ELSE [stats EXCEPT !.skipped = @ + 1]
          /\ lastIndex' = lastIndexAfterMatchAll(job["description"], lastIndex)
    /\ pendingJobs' = Tail(pendingJobs)
    /\ UNCHANGED <<isProcessing, appUploads>>
    /\ UNCHANGED <<description, profile, calls, others, locals, result, firstResult>>
    /\ UNCHANGED <<cvars, bvars, gvars, svars>>

\* lines 211-214: the loop is over
FinishProcessing ==
    /\ isProcessing /\ pendingJobs = <<>>
    /\ isProcessing' = FALSE
    /\ UNCHANGED <<appJobs, stats, pendingJobs, appUploads>>
    /\ UNCHANGED <<avars, cvars, bvars, gvars, svars>>

\* regenerateEmailForSkipped(job), confirmed, for a job of the skipped panel
RegenerateEmailForSkipped ==
    /\ \E k \in DOMAIN appJobs :
          /\ appJobs[k]["status"] = "skipped"
          /\ \E r \in {analyzeJobDescriptionLocal(appJobs[k]["description"], profile,
                                                   lastIndex)} :
                /\ r # Threw
                /\ appJobs' = updateJobData(appJobs, appJobs[k]["id"], regenerateUpdates(r))
          /\ lastIndex' = lastIndexAfterMatchAll(appJobs[k]["description"], lastIndex)
    /\ stats' = [stats EXCEPT !.entryLevel = @ + 1, !.skipped = @ - 1]
    /\ UNCHANGED <<isProcessing, pendingJobs, appUploads>>
    /\ UNCHANGED <<description, profile, calls, others, locals, result, firstResult>>
    /\ UNCHANGED <<cvars, bvars, gvars, svars>>

\* discardJob(id), confirmed, for a job shown among the qualified ones
DiscardJob ==
    /\ \E k \in DOMAIN appJobs :
          /\ appJobs[k]["status"] = "completed"
          /\ appJobs' = SelectSeq(appJobs, LAMBDA j : j["id"] # appJobs[k]["id"])
    /\ stats' = [stats EXCEPT !.total = @ - 1, !.entryLevel = @ - 1]
    /\ UNCHANGED <<isProcessing, pendingJobs, appUploads>>
    /\ UNCHANGED <<avars, cvars, bvars, gvars, svars>>

\* handleFileUpload with another file, whose jobs get ids of their own
HandleFileUpload ==
    /\ appUploads < MaxUploads
    /\ \E js \in UploadedJobs(MaxJobs) :
          /\ appJobs' = uploadedAt(js, appUploads)
          /\ stats' = [total |-> Len(js), entryLevel |-> 0, skipped |-> 0]
    /\ appUploads' = appUploads + 1
    /\ UNCHANGED <<isProcessing, pendingJobs>>
    /\ UNCHANGED <<avars, cvars, bvars, gvars, svars>>

\* the CLEAR button: setJobs([])
ClearJobs ==
    /\ appJobs' = <<>>
    /\ UNCHANGED <<stats, isProcessing, pendingJobs, appUploads>>
    /\ UNCHANGED <<avars, cvars, bvars, gvars, svars>>

AppNext ==
    StartProcessing \/ ProcessJob \/ FinishProcessing \/ RegenerateEmailForSkipped
        \/ DiscardJob \/ HandleFileUpload \/ ClearJobs

(***************************************************************************)
(* src/App.tsx: processAllJobs of the API-backed component, one step per    *)
(* stretch of code between two awaits or loop tests.  analyzeJobDescription *)
(* is a call to a remote service: it resolves with some result or rejects   *)
(* with some error.                                                         *)
(***************************************************************************)
maxRetries == 3

ApiResults ==
    { [isEntryLevel |-> TRUE, emailSubject |-> "Application", emailBody |-> "Hello",
       reason |-> "Entry-level role"],
      [isEntryLevel |-> FALSE, emailSubject |-> "", emailBody |-> "",
       reason |-> "Requires 5 years"] }

\* an error is a function from its keys; the last one has no message
ApiErrors ==
    { [message |-> "429 Too Many Requests"],
      [message |-> "Quota exceeded: RESOURCE_EXHAUSTED"],
      [message |-> "Failed to fetch"],
      <<>> }

NoError == [kind |-> "none"]

\* e.message?.includes("429") || e.message?.includes("RESOURCE_EXHAUSTED")
isRateLimit(e) ==
    /\ "message" \in DOMAIN e
    /\ (includes(e["message"], "429") \/ includes(e["message"], "RESOURCE_EXHAUSTED"))

\* backoffDelay growing by 4000 with every retry
backoffDelay_Linear(n) == n * 4000

\* Math.pow(2, retries) * 2000
backoffDelay(n) == (2 ^ n) * 2000

RECURSIVE ApiUploaded(_)
ApiUploaded(n) ==
    IF n = 0 THEN {<<>>}
    ELSE ApiUploaded(n - 1) \cup
         {Append(js, newJob("Junior ", Len(js))) : js \in ApiUploaded(n - 1)}

\* rejectedUpdates that leaves the status as the call found it
rejectedUpdates_StatusKept == [processing |-> FALSE]

\* line 157: the updates of a call that is not retried
rejectedUpdates == [status |-> "error", processing |-> FALSE]

\* line 109 with the test of isProcessing left out
returnsAtOnce_EmptyOnly(js, processing) == Len(js) = 0

\* line 109: if (jobs.length === 0 || isProcessing) return
returnsAtOnce(js, processing) == Len(js) = 0 \/ processing

\* the invocations of processAllJobs that can be under way at once
MaxRuns == 2

Runs == 1..MaxRuns

\* no invocation of processAllJobs is under way
NoRuns ==
    /\ apc = [r \in Runs |-> "idle"] /\ snapshot = [r \in Runs |-> <<>>]
    /\ cursor = [r \in Runs |-> 0] /\ retries = [r \in Runs |-> 0]
    /\ success = [r \in Runs |-> FALSE] /\ delay = [r \in Runs |-> 0]
    /\ attempts = [r \in Runs |-> 0] /\ waited = [r \in Runs |-> <<>>]
    /\ lastError = [r \in Runs |-> NoError]

\* the API-backed component is not being followed
ApiIdle ==
    /\ apiJobs = <<>> /\ apiStats = [total |-> 0, entryLevel |-> 0, skipped |-> 0]
    /\ apiProcessing = FALSE /\ apiUploads = 0
    /\ NoRuns

\* the state after handleFileUpload
ApiInit ==
    /\ apiJobs \in ApiUploaded(MaxJobs)
    /\ apiStats = [total |-> Len(apiJobs), entryLevel |-> 0, skipped |-> 0]
    /\ apiProcessing = FALSE /\ apiUploads = 1
    /\ NoRuns

\* the job the for loop of run r is at
currentJob(r) == snapshot[r][cursor[r]]

\* lines 108-111: an invocation of processAllJobs, up to its for loop
ApiStart ==
    /\ IF returnsAtOnce(apiJobs, apiProcessing)
       THEN UNCHANGED gvars
       ELSE /\ \E r \in Runs :
                 /\ apc[r] = "idle" /\ \A q \in 1..(r - 1) : apc[q] # "idle"
                 /\ snapshot' = [snapshot EXCEPT ![r] = apiJobs]
                 /\ cursor' = [cursor EXCEPT ![r] = 1]
                 /\ apc' = [apc EXCEPT ![r] = "for"]
            /\ apiProcessing' = TRUE
            /\ UNCHANGED <<apiJobs, apiStats, apiUploads, retries, success, delay,
                           attempts, waited, lastError>>
    /\ UNCHANGED <<avars, cvars, bvars, uvars, svars>>

\* lines 113-118: the next job of the for loop, skipped or taken up
ApiNextJobOf(r) ==
    /\ apc[r] = "for" /\ cursor[r] <= Len(snapshot[r])
    /\ IF currentJob(r)["status"] # "pending" /\ currentJob(r)["status"] # "error"
       THEN /\ cursor' = [cursor EXCEPT ![r] = @ + 1]
            /\ UNCHANGED <<apc, retries, success, attempts, waited, lastError>>
       ELSE /\ retries' = [retries EXCEPT ![r] = 0]
            /\ success' = [success EXCEPT ![r] = FALSE]
            /\ attempts' = [attempts EXCEPT ![r] = 0]
            /\ waited' = [waited EXCEPT ![r] = <<>>]
            /\ lastError' = [lastError EXCEPT ![r] = NoError]
            /\ apc' = [apc EXCEPT ![r] = "while"]
            /\ UNCHANGED cursor
    /\ UNCHANGED <<apiJobs, apiStats, apiProcessing, apiUploads, snapshot, delay>>
    /\ UNCHANGED <<avars, cvars, bvars, uvars, svars>>

ApiNextJob == \E r \in Runs : ApiNextJobOf(r)

\* lines 120-127: the test of the while loop and, when it passes, the call
ApiAttemptOf(r) ==
    /\ apc[r] = "while"
    /\ IF ~success[r] /\ retries[r] <= maxRetries
       THEN /\ apiJobs' = updateJobData(apiJobs, currentJob(r)["id"],
                                        [status |-> "analyzing", processing |-> TRUE])
            /\ attempts' = [attempts EXCEPT ![r] = @ + 1]
            /\ apc' = [apc EXCEPT ![r] = "await"]
       ELSE /\ apc' = [apc EXCEPT ![r] = "after"]
            /\ UNCHANGED <<apiJobs, attempts>>
    /\ UNCHANGED <<apiStats, apiProcessing, apiUploads, snapshot, cursor, retries, success,
                   delay, waited, lastError>>
    /\ UNCHANGED <<avars, cvars, bvars, uvars, svars>>

ApiAttempt == \E r \in Runs : ApiAttemptOf(r)

\* lines 128-143: the call resolved
ApiResolveOf(r) ==
    /\ apc[r] = "await"
    /\ \E res \in ApiResults :
          /\ apiJobs' = updateJobData(apiJobs, currentJob(r)["id"], processedUpdates(res))
          /\ apiStats' = IF res.isEntryLevel
                          THEN [apiStats EXCEPT !.entryLevel = @ + 1]
                          ELSE [apiStats EXCEPT !.skipped = @ + 1]
    /\ success' = [success EXCEPT ![r] = TRUE]
    /\ apc' = [apc EXCEPT ![r] = "while"]
    /\ UNCHANGED <<apiProcessing, apiUploads, snapshot, cursor, retries, delay, attempts,
                   waited, lastError>>
    /\ UNCHANGED <<avars, cvars, bvars, uvars, svars>>

ApiResolve == \E r \in Runs : ApiResolveOf(r)

\* lines 144-160: the call rejected
ApiRejectOf(r) ==
    /\ apc[r] = "await"
    /\ \E e \in ApiErrors :
          /\ lastError' = [lastError EXCEPT ![r] = e]
          /\ IF isRateLimit(e) /\ retries[r] < maxRetries
             THEN /\ retries' = [retries EXCEPT ![r] = @ + 1]
                  /\ delay' = [delay EXCEPT ![r] = backoffDelay(retries[r] + 1)]
                  /\ apc' = [apc EXCEPT ![r] = "backoff"]
                  /\ UNCHANGED apiJobs
             ELSE /\ apiJobs' = updateJobData(apiJobs, currentJob(r)["id"], rejectedUpdates)
                  /\ apc' = [apc EXCEPT ![r] = "after"]
                  /\ UNCHANGED <<retries, delay>>
    /\ UNCHANGED <<apiStats, apiProcessing, apiUploads, snapshot, cursor, success, attempts,
                   waited>>
    /\ UNCHANGED <<avars, cvars, bvars, uvars, svars>>

ApiReject == \E r \in Runs : ApiRejectOf(r)

\* line 155: the timer of the retry fired; delay is not read after it
ApiBackoffOf(r) ==
    /\ apc[r] = "backoff"
    /\ waited' = [waited EXCEPT ![r] = Append(@, delay[r])]
    /\ delay' = [delay EXCEPT ![r] = 0]
    /\ apc' = [apc EXCEPT ![r] = "while"]
    /\ UNCHANGED <<apiJobs, apiStats, apiProcessing, apiUploads, snapshot, cursor, retries,
                   success, attempts, lastError>>
    /\ UNCHANGED <<avars, cvars, bvars, uvars, svars>>

ApiBackoff == \E r \in Runs : ApiBackoffOf(r)

\* the locals of the for loop's body are not read after line 164
LeavesBody(r) ==
    /\ retries' = [retries EXCEPT ![r] = 0]
    /\ success' = [success EXCEPT ![r] = FALSE]
    /\ attempts' = [attempts EXCEPT ![r] = 0]
    /\ waited' = [waited EXCEPT ![r] = <<>>]
    /\ lastError' = [lastError EXCEPT ![r] = NoError]

\* lines 164-167: after the while loop; a job that succeeded is followed by a
\* pause of 1500 ms
ApiAfterJobOf(r) ==
    /\ apc[r] = "after"
    /\ IF success[r]
       THEN apc' = [apc EXCEPT ![r] = "pause"] /\ UNCHANGED cursor
       ELSE apc' = [apc EXCEPT ![r] = "for"] /\ cursor' = [cursor EXCEPT ![r] = @ + 1]
    /\ LeavesBody(r)
    /\ UNCHANGED <<apiJobs, apiStats, apiProcessing, apiUploads, snapshot, delay>>
    /\ UNCHANGED <<avars, cvars, bvars, uvars, svars>>

ApiAfterJob == \E r \in Runs : ApiAfterJobOf(r)

\* line 165: the timer of the pause fired
ApiPauseOf(r) ==
    /\ apc[r] = "pause"
    /\ apc' = [apc EXCEPT ![r] = "for"]
    /\ cursor' = [cursor EXCEPT ![r] = @ + 1]
    /\ UNCHANGED <<apiJobs, apiStats, apiProcessing, apiUploads, snapshot, retries, success,
                   delay, attempts, waited, lastError>>
    /\ UNCHANGED <<avars, cvars, bvars, uvars, svars>>

ApiPause == \E r \in Runs : ApiPauseOf(r)

\* lines 169-170: the for loop is over; the invocation returns and its
\* closure (the jobs it captured, its place in them) is gone
ApiFinishOf(r) ==
    /\ apc[r] = "for" /\ cursor[r] > Len(snapshot[r])
    /\ apiProcessing' = FALSE
    /\ apc' = [apc EXCEPT ![r] = "idle"]
    /\ snapshot' = [snapshot EXCEPT ![r] = <<>>]
    /\ cursor' = [cursor EXCEPT ![r] = 0]
    /\ UNCHANGED <<apiJobs, apiStats, apiUploads, retries, success, delay,
                   attempts, waited, lastError>>
    /\ UNCHANGED <<avars, cvars, bvars, uvars, svars>>

ApiFinish == \E r \in Runs : ApiFinishOf(r)

\* handleFileUpload with another file, whose jobs get ids of their own
ApiUpload ==
    /\ apiUploads < MaxUploads
    /\ \E js \in ApiUploaded(MaxJobs) :
          /\ apiJobs' = uploadedAt(js, apiUploads)
          /\ apiStats' = [total |-> Len(js), entryLevel |-> 0, skipped |-> 0]
    /\ apiUploads' = apiUploads + 1
    /\ UNCHANGED <<apiProcessing, apc, snapshot, cursor, retries, success, delay, attempts,
                   waited, lastError>>
    /\ UNCHANGED <<avars, cvars, bvars, uvars, svars>>

\* the CLEAR button: setJobs([])
ApiClear ==
    /\ apiJobs' = <<>>
    /\ UNCHANGED <<apiStats, apiProcessing, apiUploads, apc, snapshot, cursor, retries,
                   success, delay, attempts, waited, lastError>>
    /\ UNCHANGED <<avars, cvars, bvars, uvars, svars>>

\* JobCard's handleSaveEdit on a completed job: onUpdate({ emailBody })
ApiEdit ==
    /\ \E k \in DOMAIN apiJobs :
          /\ apiJobs[k]["status"] = "completed"
          /\ apiJobs' = updateJobData(apiJobs, apiJobs[k]["id"], [emailBody |-> "Edited"])
    /\ UNCHANGED <<apiStats, apiProcessing, apiUploads, apc, snapshot, cursor, retries,
                   success, delay, attempts, waited, lastError>>
    /\ UNCHANGED <<avars, cvars, bvars, uvars, svars>>

\* the steps of a run after its start
ApiRun ==
    ApiNextJob \/ ApiAttempt \/ ApiResolve \/ ApiReject \/ ApiBackoff \/ ApiAfterJob
        \/ ApiPause \/ ApiFinish

ApiNext == ApiStart \/ ApiRun \/ ApiUpload \/ ApiClear \/ ApiEdit

\* a run among the user's uploads, clears and further invocations
ApiNextLive == ApiStart \/ ApiRun \/ ApiUpload \/ ApiClear

(***************************************************************************)
(* src/utils/auth.ts.  The two storage keys hold JSON text; the model keeps *)
(* the values that text parses to: an array of accounts, and a session or   *)
(* null.  A Map is the sequence of its entries in insertion order.  Times   *)
(* are milliseconds since the first call.                                   *)
(***************************************************************************)
SESSION_DURATION_MS == 9000000

Null == [kind |-> "null"]

\* Map.prototype.has, get and set
mapHas(m, k) == \E i \in DOMAIN m : m[i].key = k

mapGet(m, k) == m[CHOOSE i \in DOMAIN m : m[i].key = k].value

mapSet(m, k, v) ==
    IF mapHas(m, k)
    THEN [i \in DOMAIN m |-> IF m[i].key = k THEN [key |-> k, value |-> v] ELSE m[i]]
    ELSE Append(m, [key |-> k, value |-> v])

\* the emails the calls are made with, as typed
EmailTexts == {"a@b.c", " A@B.c", "A@b.c ", " a@B.C", "x@y.z", "q@r.st", "nope", " "}

\* e.toLowerCase().trim() of each of them, worked out once
Normalised == [x \in EmailTexts |-> trim(toLowerCase(x))]

\* toLowerCase() of each of them and of what they normalise to, worked out
\* once
LowerCased ==
    [x \in EmailTexts \cup {Normalised[y] : y \in EmailTexts} |-> toLowerCase(x)]

\* user.email.toLowerCase()
emailKey(x) == IF x \in DOMAIN LowerCased THEN LowerCased[x] ELSE toLowerCase(x)

\* getUsers: the stored array as a Map keyed by user.email.toLowerCase()
RECURSIVE getUsersFrom(_, _)
getUsersFrom(stored, n) ==
    IF n = 0 THEN <<>>
    ELSE The({mapSet(before, k, stored[n]) :
                 before \in {getUsersFrom(stored, n - 1)},
                 k \in {emailKey(stored[n].email)}})

getUsers(stored) == getUsersFrom(stored, Len(stored))

\* saveUsers: Array.from(users.values())
saveUsers(m) == [i \in DOMAIN m |-> m[i].value]

\* createSession(email, profile) at time t
createSession(e, prof, t) ==
    [email |-> e, expiresAt |-> t + SESSION_DURATION_MS, profile |-> prof]

\* getSessionData() at time t: what it returns and what it leaves stored
getSessionData(sess, t) ==
    IF sess = Null THEN [value |-> Null, session |-> Null]
    ELSE IF sess.expiresAt < t THEN [value |-> Null, session |-> Null]
    ELSE [value |-> sess, session |-> sess]

\* isSessionValid() at time t
isSessionValid(sess, t) ==
    The({[value |-> IF g.value = Null THEN FALSE ELSE g.value.expiresAt > t,
          session |-> g.session] : g \in {getSessionData(sess, t)}})

\* e.toLowerCase().trim()
normalise(e) == IF e \in DOMAIN Normalised THEN Normalised[e] ELSE trim(toLowerCase(e))

Failure(message) == [success |-> FALSE, error |-> message]

\* the boolean a call returned
ReturnedValue(b) == [returned |-> b]

\* what a call leaves: its return value, the two stored values, and whether
\* it called createSession
Outcome(r, store, sess, wrote) ==
    [ret |-> r, users |-> store, session |-> sess, wrote |-> wrote]

\* signUp that looks the account up under the email as typed
signUp_RawLookup(e, pw, prof, store, sess, t) ==
    The({ IF emailLower = "" \/ ~includes(emailLower, "@")
          THEN Outcome(Failure("Please enter a valid email address"), store, sess, FALSE)
          ELSE IF pw = "" \/ Len(pw) < 6
          THEN Outcome(Failure("Password must be at least 6 characters"), store, sess, FALSE)
          ELSE IF mapHas(m, e)
          THEN Outcome(Failure("An account with this email already exists"), store, sess,
                       FALSE)
          ELSE The({Outcome([success |-> TRUE],
                            saveUsers(mapSet(m, emailLower, newUser)),
                            createSession(emailLower, newUser.profile, t), TRUE) :
                       newUser \in {[email |-> emailLower, password |-> pw,
                                     profile |-> Merge(prof, [email |-> emailLower]),
                                     createdAt |-> t]}}) :
          emailLower \in {normalise(e)}, m \in {getUsers(store)} })

\* signUp(email, password, profile) at time t
signUp(e, pw, prof, store, sess, t) ==
    The({ IF emailLower = "" \/ ~includes(emailLower, "@")
          THEN Outcome(Failure("Please enter a valid email address"), store, sess, FALSE)
          ELSE IF pw = "" \/ Len(pw) < 6
          THEN Outcome(Failure("Password must be at least 6 characters"), store, sess, FALSE)
          ELSE IF mapHas(m, emailLower)
          THEN Outcome(Failure("An account with this email already exists"), store, sess,
                       FALSE)
          ELSE The({Outcome([success |-> TRUE],
                            saveUsers(mapSet(m, emailLower, newUser)),
                            createSession(emailLower, newUser.profile, t), TRUE) :
                       newUser \in {[email |-> emailLower, password |-> pw,
                                     profile |-> Merge(prof, [email |-> emailLower]),
                                     createdAt |-> t]}}) :
          emailLower \in {normalise(e)}, m \in {getUsers(store)} })

\* signIn that does not compare the password
signIn_AnyPassword(e, pw, store, sess, t) ==
    The({ IF ~mapHas(m, emailLower)
          THEN Outcome(Failure("No account found with this email"), store, sess, FALSE)
          ELSE The({Outcome([success |-> TRUE, profile |-> user.profile], store,
                            createSession(emailLower, user.profile, t), TRUE) :
                       user \in {mapGet(m, emailLower)}}) :
          emailLower \in {normalise(e)}, m \in {getUsers(store)} })

\* signIn(email, password) at time t
signIn(e, pw, store, sess, t) ==
    The({ IF ~mapHas(m, emailLower)
          THEN Outcome(Failure("No account found with this email"), store, sess, FALSE)
          ELSE The({ IF user.password # pw
                     THEN Outcome(Failure("Incorrect password"), store, sess, FALSE)
                     ELSE Outcome([success |-> TRUE, profile |-> user.profile], store,
                                  createSession(emailLower, user.profile, t), TRUE) :
                     user \in {mapGet(m, emailLower)}}) :
          emailLower \in {normalise(e)}, m \in {getUsers(store)} })

\* updateUserProfile that rewrites the session whoever it belongs to
updateUserProfile_AnySession(e, prof, store, sess, t) ==
    The({ IF ~mapHas(m, emailLower)
          THEN Outcome(ReturnedValue(FALSE), store, sess, FALSE)
          ELSE The({ Outcome(ReturnedValue(TRUE),
                             saveUsers(mapSet(m, emailLower, user)),
                             IF g.value # Null
                             THEN createSession(emailLower, user.profile, t)
                             ELSE g.session,
                             g.value # Null) :
                     user \in {[mapGet(m, emailLower)
                                   EXCEPT !.profile = Merge(prof, [email |-> emailLower])]},
                     g \in {getSessionData(sess, t)} }) :
          emailLower \in {normalise(e)}, m \in {getUsers(store)} })

\* updateUserProfile that leaves the session to the read of getSessionData
updateUserProfile_StaleSession(e, prof, store, sess, t) ==
    The({ IF ~mapHas(m, emailLower)
          THEN Outcome(ReturnedValue(FALSE), store, sess, FALSE)
          ELSE The({ Outcome(ReturnedValue(TRUE),
                             saveUsers(mapSet(m, emailLower, user)),
                             g.session, FALSE) :
                     user \in {[mapGet(m, emailLower)
                                   EXCEPT !.profile = Merge(prof, [email |-> emailLower])]},
                     g \in {getSessionData(sess, t)} }) :
          emailLower \in {normalise(e)}, m \in {getUsers(store)} })

\* updateUserProfile(email, profile) at time t
updateUserProfile(e, prof, store, sess, t) ==
    The({ IF ~mapHas(m, emailLower)
          THEN Outcome(ReturnedValue(FALSE), store, sess, FALSE)
          ELSE The({ Outcome(ReturnedValue(TRUE),
                             saveUsers(mapSet(m, emailLower, user)),
                             IF g.value # Null /\ g.value.email = emailLower
                             THEN createSession(emailLower, user.profile, t)
                             ELSE g.session,
                             g.value # Null /\ g.value.email = emailLower) :
                     user \in {[mapGet(m, emailLower)
                                   EXCEPT !.profile = Merge(prof, [email |-> emailLower])]},
                     g \in {getSessionData(sess, t)} }) :
          emailLower \in {normalise(e)}, m \in {getUsers(store)} })

(***************************************************************************)
(* Calls to the auth module, in any order, with the clock moving between    *)
(* them by half the session's duration                                      *)
(***************************************************************************)
MaxTicks == 3

TickMs == SESSION_DURATION_MS \div 2

AshaProfile == [name |-> "Asha"]
RaviProfile == [name |-> "Ravi", email |-> "old@e.f"]

\* <<email, password, profile>>
SignUpInputs ==
    { <<"a@b.c", "secret1", AshaProfile>>,
      <<" A@B.c", "hunter22", RaviProfile>>,
      <<"x@y.z", "hunter22", AshaProfile>>,
      <<"a@b.c", "short", AshaProfile>>,
      <<"nope", "secret1", AshaProfile>>,
      <<" ", "secret1", RaviProfile>> }

\* <<email, password>>
SignInInputs ==
    { <<"A@b.c ", "secret1">>, <<"a@b.c", "hunter22">>, <<"x@y.z", "hunter22">>,
      <<"x@y.z", "">>, <<"q@r.st", "secret1">> }

\* <<email, profile>>
UpdateInputs ==
    { <<" a@B.C", RaviProfile>>, <<"a@b.c", AshaProfile>>, <<"x@y.z", RaviProfile>>,
      <<"q@r.st", AshaProfile>> }

NoCall == [kind |-> "none"]

\* the auth module is not being followed
AuthIdle ==
    /\ users = <<>> /\ session = Null /\ now = 0 /\ ret = NoCall
    /\ firstPassword = <<>> /\ writtenAt = 0

\* empty storage
AuthInit ==
    /\ users = <<>> /\ session = Null /\ now = 0 /\ ret = NoCall
    /\ firstPassword = <<>> /\ writtenAt = 0

\* the effect of a call on the two storage keys and on what is remembered
\* about the session
Applies(o) ==
    /\ ret' = o.ret
    /\ users' = o.users
    /\ session' = o.session
    /\ writtenAt' = IF o.wrote THEN now ELSE writtenAt

SignUpWith(e, pw, prof) ==
    /\ \E o \in {signUp(e, pw, prof, users, session, now)} :
          /\ Applies(o)
          /\ firstPassword' =
                IF o.ret.success /\ normalise(e) \notin DOMAIN firstPassword
                THEN [k \in DOMAIN firstPassword \cup {normalise(e)} |->
                         IF k = normalise(e) THEN pw ELSE firstPassword[k]]
                ELSE firstPassword
    /\ UNCHANGED now
    /\ UNCHANGED <<avars, cvars, bvars, uvars, gvars>>

SignUp == \E in \in SignUpInputs : SignUpWith(in[1], in[2], in[3])

SignInWith(e, pw) ==
    /\ \E o \in {signIn(e, pw, users, session, now)} : Applies(o)
    /\ UNCHANGED <<now, firstPassword>>
    /\ UNCHANGED <<avars, cvars, bvars, uvars, gvars>>

SignIn == \E in \in SignInInputs : SignInWith(in[1], in[2])

UpdateUserProfileWith(e, prof) ==
    /\ \E o \in {updateUserProfile(e, prof, users, session, now)} : Applies(o)
    /\ UNCHANGED <<now, firstPassword>>
    /\ UNCHANGED <<avars, cvars, bvars, uvars, gvars>>

UpdateUserProfile == \E in \in UpdateInputs : UpdateUserProfileWith(in[1], in[2])

\* clearSession()
ClearSession ==
    /\ session' = Null
    /\ ret' = [cleared |-> TRUE]
    /\ UNCHANGED <<users, now, firstPassword, writtenAt>>
    /\ UNCHANGED <<avars, cvars, bvars, uvars, gvars>>

\* getSessionData()
GetSessionData ==
    /\ \E g \in {getSessionData(session, now)} :
          /\ ret' = [got |-> g.value]
          /\ session' = g.session
    /\ UNCHANGED <<users, now, firstPassword, writtenAt>>
    /\ UNCHANGED <<avars, cvars, bvars, uvars, gvars>>

\* isSessionValid()
IsSessionValid ==
    /\ \E g \in {isSessionValid(session, now)} :
          /\ ret' = [valid |-> g.value]
          /\ session' = g.session
    /\ UNCHANGED <<users, now, firstPassword, writtenAt>>
    /\ UNCHANGED <<avars, cvars, bvars, uvars, gvars>>

\* time passes between two calls
Tick ==
    /\ now < MaxTicks * TickMs
    /\ now' = now + TickMs
    /\ UNCHANGED <<users, session, ret, firstPassword, writtenAt>>
    /\ UNCHANGED <<avars, cvars, bvars, uvars, gvars>>

AuthNext ==
    SignUp \/ SignIn \/ UpdateUserProfile \/ ClearSession \/ GetSessionData
        \/ IsSessionValid \/ Tick

(***************************************************************************)
(* Inputs of the parser: tables written out as text, and texts as such     *)
(***************************************************************************)
MaxRows == 2

Headers ==
    { <<"Emails", "Description">>,
      <<"Emails", "Phone Numbers", "Description">>,
      <<" description", "Phone Numbers", "EMAILS ">>,
      <<"Email", "Description">> }

DataRows ==
    << <<"a@b.com", "Junior dev">>,
       <<"hr@x.io", "Hi, there, team">>,
       <<"c@d.org">>,
       <<"">>,
       <<"", "x;y;z; ">>,
       <<" e@f.net ", "555 1234", "say \"hi\"\nbye">>,
       <<"q@r.st", "\"One\", two;\r\nthree\tfour">> >>

RECURSIVE RowSeqs(_)
RowSeqs(n) ==
    IF n = 0 THEN {<<>>}
    ELSE RowSeqs(n - 1) \cup
         {Append(rs, DataRows[k]) : rs \in RowSeqs(n - 1), k \in DOMAIN DataRows}

\* [delim, eol, final]: the delimiter, the line terminator, and whether the
\* last row is terminated too
Layouts ==
    { <<",", "\n", TRUE>>, <<",", "\n", FALSE>>, <<",", "\r", TRUE>>,
      <<",", "\r\n", FALSE>>, <<";", "\n", TRUE>>, <<";", "\r", FALSE>>,
      <<";", "\r\n", TRUE>>, <<"\t", "\n", FALSE>>, <<"\t", "\r", TRUE>> }

RECURSIVE doubleQuotes(_)
doubleQuotes(s) ==
    IF s = "" THEN ""
    ELSE (IF Head(s) = "\"" THEN "\"\"" ELSE Head(s)) \o doubleQuotes(Tail(s))

\* a field is quoted when it holds the delimiter, a quote or a line break
writeField(f, delim) ==
    IF includes(f, delim) \/ includes(f, "\"") \/ includes(f, "\n") \/ includes(f, "\r")
    THEN "\"" \o doubleQuotes(f) \o "\"" ELSE f

writeRow(cells, delim) == join([k \in DOMAIN cells |-> writeField(cells[k], delim)], delim)

writeTable(header, rs, delim, eol, final) ==
    join([k \in 1..(Len(rs) + 1) |->
             writeRow(IF k = 1 THEN header ELSE rs[k - 1], delim)], eol)
    \o (IF final THEN eol ELSE "")

TableSource(header, rs, layout) ==
    [kind |-> "table", header |-> header, rows |-> rs,
     delim |-> layout[1], eol |-> layout[2], final |-> layout[3]]

TextSource == [kind |-> "text"]

RawTexts ==
    { "",
      " \n\t",
      "foo,bar",
      "foo,bar\n",
      "Emails\nx",
      "Emails,Description\na@b.com,\"Hello, world\"\n",
      "Emails,Description\na@b.com,\"Quote \"\"here\"\"\"\n",
      "Emails,Description\r\n\"a@b.com\",un\"quo\"ted\rq,\"x\r\ny,\"\"z",
      "Emails\tDescription\n\"q@r.st\"\t\"tab\there\"\"\"\t\n\n",
      "Emails;Description\tx\na;b\tc",
      "Emails\tDescription\t;\nq\tw\t;e",
      "foo\n\"\"",
      "Emails,Description\nq@r.st,w\n\"\"" }

(***************************************************************************)
(* parseCSV as a process: one step per iteration of the tokenizer's loop   *)
(***************************************************************************)
CsvIdle ==
    /\ csvText = "" /\ source = TextSource /\ cpc = "idle" /\ delimiter = ","
    /\ scan = scanInit /\ parsed = NoResult

CsvInit ==
    /\ \/ \E header \in Headers, rs \in RowSeqs(MaxRows), layout \in Layouts :
            /\ source = TableSource(header, rs, layout)
            /\ csvText = writeTable(header, rs, layout[1], layout[2], layout[3])
       \/ /\ source = TextSource
          /\ csvText \in RawTexts
    /\ cpc = "start"
    /\ delimiter = ","
    /\ scan = scanInit
    /\ parsed = NoResult

\* line 13, and lines 52-65 of robustCSVParser
StartParse ==
    /\ cpc = "start"
    /\ IF trim(csvText) = ""
       THEN /\ parsed' = Returns(<<>>)
            /\ cpc' = "done"
            /\ UNCHANGED delimiter
       ELSE /\ delimiter' = detectDelimiter(csvText)
            /\ cpc' = "scan"
            /\ UNCHANGED parsed
    /\ UNCHANGED <<csvText, source, scan>>
    /\ UNCHANGED <<avars, bvars, uvars, gvars, svars>>

\* one iteration of the loop of lines 67-104
ScanChar ==
    /\ cpc = "scan"
    /\ scan.i < Len(csvText)
    /\ scan' = scanStep(scan, csvText, delimiter)
    /\ UNCHANGED <<csvText, source, cpc, delimiter, parsed>>
    /\ UNCHANGED <<avars, bvars, uvars, gvars, svars>>

\* lines 106-112 of robustCSVParser and lines 16-43 of parseCSV
FinishParse ==
    /\ cpc = "scan"
    /\ scan.i >= Len(csvText)
    /\ parsed' = mapRows(scanFlush(scan))
    /\ cpc' = "done"
    /\ UNCHANGED <<csvText, source, delimiter, scan>>
    /\ UNCHANGED <<avars, bvars, uvars, gvars, svars>>

CsvNext == StartParse \/ ScanChar \/ FinishParse

InitCSV == CsvInit /\ AnalyzeIdle /\ BatchIdle /\ AppIdle /\ ApiIdle /\ AuthIdle

SpecCSV == InitCSV /\ [][CsvNext]_vars

AnalyzeNext == Analyze \/ AnalyzeOther

InitAnalyze == AnalyzeInit /\ CsvIdle /\ BatchIdle /\ AppIdle /\ ApiIdle /\ AuthIdle

SpecAnalyze == InitAnalyze /\ [][AnalyzeNext]_vars

InitBatch == BatchInit /\ CsvIdle /\ AppIdle /\ ApiIdle /\ AuthIdle

SpecBatch == InitBatch /\ [][BatchNext]_vars

InitApp == AppInit /\ CsvIdle /\ BatchIdle /\ ApiIdle /\ AuthIdle

SpecApp == InitApp /\ [][AppNext]_vars

InitApi == ApiInit /\ AnalyzeIdle /\ CsvIdle /\ BatchIdle /\ AppIdle /\ AuthIdle

SpecApi == InitApi /\ [][ApiNext]_vars

\* every call resolves or rejects, every timer fires, and the code between
\* two awaits runs; the user starts runs and changes which jobs are listed
\* (edits of an email's text touch no field a run reads or writes)
SpecApiLive == InitApi /\ [][ApiNextLive]_vars /\ WF_vars(ApiRun)

InitAuth == AuthInit /\ AnalyzeIdle /\ CsvIdle /\ BatchIdle /\ AppIdle /\ ApiIdle

SpecAuth == InitAuth /\ [][AuthNext]_vars

(***************************************************************************)
(* Properties of the classifier                                            *)
(***************************************************************************)
Returned == result # NoResult /\ result.kind = "return"

\* C1: the decision is the first matching rule of the table, for every
\* combination of hasEntryKeyword, hasSeniorKeyword and maxYearsRequired
C1_FirstMatchingRule ==
    Returned =>
        LET e == locals.hasEntryKeyword
            s == locals.hasSeniorKeyword
            n == locals.maxYearsRequired
        IN  /\ (e /\ ~s) =>
                /\ result.isEntryLevel
                /\ result.reason = "Contains entry-level keywords and no senior requirements"
            /\ s =>
                /\ ~result.isEntryLevel
                /\ result.reason = "Contains senior/experienced position keywords"
            /\ (~e /\ ~s /\ n > 2) =>
                /\ ~result.isEntryLevel
                /\ result.reason = "Requires " \o NumberToString(n) \o "+ years of experience"
            /\ (~e /\ ~s /\ 0 < n /\ n <= 2) =>
                /\ result.isEntryLevel
                /\ result.reason =
                      "Requires " \o NumberToString(n) \o " years or less - entry-level acceptable"
            /\ (~e /\ ~s /\ n <= 0) =>
                /\ result.isEntryLevel
                /\ result.reason =
                      "No specific experience requirements mentioned - likely entry-level"

\* a senior keyword wins over an entry keyword, with years of 2 or less found
C1_Witness ==
    /\ Returned
    /\ locals.hasEntryKeyword /\ locals.hasSeniorKeyword
    /\ locals.maxYearsRequired = 2
    /\ ~result.isEntryLevel

\* C2: subject and body are both empty exactly when the result is not
\* entry-level, and both non-empty when it is
C2_EmailIffEntryLevel ==
    Returned =>
        /\ (result.emailSubject = "" /\ result.emailBody = "") <=> ~result.isEntryLevel
        /\ result.isEntryLevel => (result.emailSubject # "" /\ result.emailBody # "")
        /\ ~result.isEntryLevel => (result.emailSubject = "" /\ result.emailBody = "")

C2_Witness ==
    /\ Returned /\ ~result.isEntryLevel
    /\ result.emailSubject = "" /\ result.emailBody = ""
    /\ locals.maxYearsRequired = 12 /\ ~locals.hasSeniorKeyword

\* C3: every call returns a result with its four fields set, and the empty
\* description is entry-level by the default rule
C3_NeverFails ==
    result # NoResult =>
        /\ result.kind = "return"
        /\ {"isEntryLevel", "emailSubject", "emailBody", "reason"} \subseteq DOMAIN result
        /\ result.isEntryLevel \in BOOLEAN
        /\ result.reason # ""
        /\ (description = "") =>
              (/\ result.isEntryLevel
               /\ result.reason =
                     "No specific experience requirements mentioned - likely entry-level")

\* the empty description with a profile that has no field at all
C3_Witness ==
    /\ Returned /\ description = "" /\ DOMAIN profile = {}
    /\ result.isEntryLevel /\ result.emailBody # ""

\* C4: every call with (description, profile) returns what the first one
\* returned, whatever calls were made before it or in between
C4_Deterministic == firstResult # NoResult => result = firstResult

\* a description with years in it, analysed twice with another call made
C4_Witness ==
    /\ calls = 2 /\ others = 1 /\ Returned
    /\ locals.maxYearsRequired > 0
    /\ result = firstResult

\* s.startsWith(k, p)
startsWithAt(s, k, p) == substring(s, p, p + Len(k)) = k

\* s.split(sep)
RECURSIVE split(_, _)
split(s, sep) ==
    LET at == indexOf(s, sep, 0)
    IN  IF at = -1 THEN <<s>>
        ELSE <<substring(s, 0, at)>> \o split(substring(s, at + Len(sep), Len(s)), sep)

\* C10: in an entry-level result an empty profile field contributes nothing
\* to emailBody: no link line for an empty portfolio, figma or resumeLink,
\* no sign-off line for an empty name, phone or email, no " | LinkedIn"
\* for an empty linkedin, and no placeholder in their stead
C10_EmptyFieldsContributeNothing ==
    (Returned /\ result.isEntryLevel) =>
        LET body == result.emailBody
            blocks == split(body, "\n\n")
            lines == split(blocks[Len(blocks)], "\n")
            Empty(f) == ~Truthy(profile, f)
            contact == {f \in {"name", "phone", "email"} : ~Empty(f)}
            NoBlock(prefix) == \A k \in DOMAIN blocks : ~startsWithAt(blocks[k], prefix, 0)
        IN  /\ Empty("portfolio") => NoBlock("You can explore my work through my portfolio")
            /\ Empty("figma") => NoBlock("View my Figma designs")
            /\ Empty("resumeLink") => NoBlock("I have also attached my resume")
            /\ lines[1] = "Best regards," \/ lines[1] = "Best regards, | LinkedIn"
            /\ Len(lines) = 1 + Cardinality(contact)
            /\ \A k \in DOMAIN lines : lines[k] # "" /\ lines[k] # " | LinkedIn"
            /\ Empty("linkedin") => ~includes(blocks[Len(blocks)], " | LinkedIn")
            /\ Len(blocks) =
                  5 + Cardinality({f \in {"portfolio", "figma", "resumeLink"} : ~Empty(f)})
            /\ \A k \in DOMAIN blocks :
                  \/ blocks[k] \in {"Dear Hiring Team,", DesignSkills, SoftwareSkills,
                                    DataSkills, GenericSkills, Closing}
                  \/ /\ blocks[k] # ""
                     /\ ~includes(blocks[k], "undefined") /\ ~includes(blocks[k], "null")
                     /\ ~includes(blocks[k], ": .") /\ ~includes(blocks[k], "As a ,")

\* only the phone is filled in, the other fields are absent
C10_Witness ==
    /\ Returned /\ result.isEntryLevel
    /\ DOMAIN profile = {"phone"}
    /\ includes(result.emailBody, "\n\nBest regards,\n+91 98765 43210")

\* the lines of the sign-off, the last block of an email body
SignoffLines(body) ==
    The({split(blocks[Len(blocks)], "\n") : blocks \in {split(body, "\n\n")}})

\* C11: the sign-off is "Best regards," and then, each on a line of its own
\* and only if present, the name in upper case, the phone and the email;
\* " | LinkedIn" occurs only with a linkedin field and then directly after
\* the email, on the email's line
C11_LinkedInOnEmailLine ==
    (Returned /\ result.isEntryLevel) =>
        LET Line(f, text) == IF Truthy(profile, f) THEN <<text>> ELSE <<>>
            suffix == IF Truthy(profile, "linkedin") THEN " | LinkedIn" ELSE ""
        IN  /\ SignoffLines(result.emailBody) =
                  <<"Best regards,">> \o
                  Line("name", toUpperCase(Interpolate(profile, "name"))) \o
                  Line("phone", Interpolate(profile, "phone")) \o
                  Line("email", Interpolate(profile, "email") \o suffix)
            /\ includes(result.emailBody, " | LinkedIn") =>
                  /\ Truthy(profile, "linkedin") /\ Truthy(profile, "email")
                  /\ includes(result.emailBody,
                              "\n" \o Interpolate(profile, "email") \o " | LinkedIn")

\* C15: the body of an entry-level result is, separated by one blank line
\* each: the greeting, the opening paragraph with the bio or the generic
\* clause, one of the four skills paragraphs, a link line for each non-empty
\* field of portfolio, figma, resumeLink in this order, the closing paragraph
\* and the sign-off: 5 blocks plus one for each link
C15_BodyBlocks ==
    (Returned /\ result.isEntryLevel) =>
        LET blocks == split(result.emailBody, "\n\n")
            Link(f, text) == IF Truthy(profile, f) THEN <<text \o profile[f] \o ".">> ELSE <<>>
            linkLines ==
                Link("portfolio", "You can explore my work through my portfolio here: ") \o
                Link("figma", "View my Figma designs: ") \o
                Link("resumeLink", "I have also attached my resume for your review: ")
            n == Len(linkLines)
            bio == IF Truthy(profile, "bio") THEN profile["bio"]
                   ELSE "creative professional with a passion for building intuitive," \o
                        " user-friendly solutions"
        IN  /\ Len(blocks) = 5 + n
            /\ \A k \in DOMAIN blocks :
                  /\ blocks[k] # ""
                  /\ charAt(blocks[k], 0) # "\n"
                  /\ charAt(blocks[k], Len(blocks[k]) - 1) # "\n"
            /\ blocks[1] = "Dear Hiring Team,"
            /\ startsWithAt(blocks[2], "I am writing to express my interest in the ", 0)
            /\ includes(blocks[2], " position. As a " \o bio \o ", I am eager to contribute")
            /\ blocks[3] \in {DesignSkills, SoftwareSkills, DataSkills, GenericSkills}
            /\ SubSeq(blocks, 4, 3 + n) = linkLines
            /\ startsWithAt(blocks[4 + n], "Thank you for your time and consideration.", 0)
            /\ startsWithAt(blocks[5 + n], "Best regards,", 0)

\* a portfolio and a resume link without a Figma link, and no bio
C15_Witness ==
    /\ Returned /\ result.isEntryLevel
    /\ Truthy(profile, "portfolio") /\ Truthy(profile, "resumeLink")
    /\ ~Truthy(profile, "figma") /\ ~Truthy(profile, "bio")
    /\ Len(split(result.emailBody, "\n\n")) = 7

\* the vocabularies of the field categories, in the order they are tried
FieldVocabularies ==
    << {"software", "developer", "engineer"}, {"design", "ui", "ux"},
       {"marketing"}, {"data", "analyst"}, {"sales"} >>

\* the categories the description has a word of, as a substring and
\* whatever the case of its letters
MatchedCategories ==
    The({{k \in DOMAIN FieldVocabularies : \E w \in FieldVocabularies[k] : includes(low, w)} :
            low \in {toLowerCase(description)}})

\* C16: the field is that of the first category, in the fixed order, that
\* the description has a word of, and the default label when it has none;
\* the skills paragraph of an entry-level result is the software, design or
\* data template for these three fields and the generic one otherwise
C16_FirstCategoryWins ==
    LET matched == MatchedCategories
        first == IF matched = {} THEN 0
                 ELSE CHOOSE k \in matched : \A j \in matched : k <= j
        label == << "software development", "design", "marketing",
                    "data analytics", "sales" >>
        template == << SoftwareSkills, DesignSkills, GenericSkills,
                       DataSkills, GenericSkills >>
    IN  /\ detectField(description) =
              IF first = 0 THEN "your organization" ELSE label[first]
        /\ (Returned /\ result.isEntryLevel) =>
              split(result.emailBody, "\n\n")[3] =
                  IF first = 0 THEN GenericSkills ELSE template[first]

\* a description with a word of the software and of the design vocabulary
C16_Witness ==
    /\ Returned /\ result.isEntryLevel
    /\ MatchedCategories = {1, 2}
    /\ split(result.emailBody, "\n\n")[3] = SoftwareSkills

\* C12: batchAnalyzeLocal returns as many results as there are jobs, the
\* i-th being what analyzeJobDescriptionLocal returns for the i-th job's
\* description alone, whatever the other jobs are
C12_BatchIsMap ==
    /\ bpc = "done" =>
          /\ batch.kind = "return"
          /\ Len(batch.results) = Len(jobs)
          /\ \A i \in DOMAIN jobs :
                batch.results[i] = analyzeJobDescriptionLocal(jobs[i].description, profile, 0)
    /\ bpc = "map" =>
          /\ Len(mapped) <= Len(jobs)
          /\ \A i \in DOMAIN mapped :
                mapped[i] = analyzeJobDescriptionLocal(jobs[i].description, profile, 0)

\* two jobs with different outcomes, the second one's years after the
\* offset the first one's match ends at
C12_Witness ==
    /\ bpc = "done" /\ batch.kind = "return" /\ Len(batch.results) = 2
    /\ jobs[1].description = "Sales job, at least 4 years at least 1 year"
    /\ jobs[2].description = "Junior "
    /\ ~batch.results[1].isEntryLevel /\ batch.results[2].isEntryLevel
    /\ batch.results[2].emailBody # ""

\* the same description analysed with a profile that has no field, and with
\* one that has a name, a bio and a portfolio
ReferenceProfiles ==
    {<<>>, [name |-> "Asha Rao", bio |-> "data analyst", portfolio |-> "https://a.sh"]}

ReferenceResults ==
    {analyzeJobDescriptionLocal(description, p, lastIndex) : p \in ReferenceProfiles}

\* C29: the decision does not depend on the profile: a description gets the
\* same isEntryLevel and the same reason with every profile (every profile
\* agrees with the two reference profiles, hence any two profiles agree)
C29_DecisionIgnoresProfile ==
    result # NoResult =>
        \A r2 \in ReferenceResults :
            /\ result.kind = "return" /\ r2.kind = "return"
            /\ result.isEntryLevel = r2.isEntryLevel
            /\ result.reason = r2.reason

\* an entry-level description whose email differs between the profile of the
\* call and both reference profiles
C29_Witness ==
    /\ result # NoResult /\ result.kind = "return" /\ result.isEntryLevel
    /\ profile \notin ReferenceProfiles
    /\ \A r2 \in ReferenceResults :
          r2.emailBody # result.emailBody /\ r2.reason = result.reason

(***************************************************************************)
(* Properties of the parser                                                *)
(***************************************************************************)
Done == cpc = "done"

\* the rows the tokenizer produced, once the scan is over
TokenRows == scanFlush(scan)

HeaderIndex(name) ==
    headerIndexOf([k \in DOMAIN TokenRows[1] |-> lowerTrim(TokenRows[1][k])], name)

\* the rows after the header that are not a single empty field
KeptRows == SelectSeq(Tail(TokenRows), LAMBDA r : ~(Len(r) = 1 /\ r[1] = ""))

\* C5: for a text that is not blank, a header row without 'emails' or
\* without 'description' makes parseCSV fail with an error that carries the
\* header values, whatever the number of rows after the header
C5_SchemaErrorForAnyRowCount ==
    (/\ Done /\ trim(csvText) # "" /\ Len(TokenRows) >= 1
     /\ (HeaderIndex("emails") = -1 \/ HeaderIndex("description") = -1)) =>
            /\ parsed.kind = "throw"
            /\ \A k \in DOMAIN TokenRows[1] : includes(parsed.message, TokenRows[1][k])

\* C6: inside a quoted field the delimiter, CR and LF are field characters;
\* a doubled quote adds one quote and stays in quoted mode; a quote that
\* opens or closes quoted mode adds nothing to the field
C6_Step ==
    LET char == charAt(csvText, scan.i)
        nextChar == charAt(csvText, scan.i + 1)
        sameRows == scan'.row = scan.row /\ scan'.result = scan.result
    IN  /\ (scan.inQuotes /\ char \in {delimiter, "\r", "\n"}) =>
              /\ scan'.col = scan.col \o char
              /\ scan'.inQuotes /\ sameRows /\ scan'.i = scan.i + 1
        /\ (scan.inQuotes /\ char = "\"" /\ nextChar = "\"") =>
              /\ scan'.col = scan.col \o "\""
              /\ scan'.inQuotes /\ sameRows /\ scan'.i = scan.i + 2
        /\ (char = "\"" /\ ~(scan.inQuotes /\ nextChar = "\"")) =>
              /\ scan'.col = scan.col
              /\ scan'.inQuotes = ~scan.inQuotes /\ sameRows /\ scan'.i = scan.i + 1

C6_Examples ==
    /\ (Done /\ csvText = "Emails,Description\na@b.com,\"Hello, world\"\n") =>
          parsed = Returns(<<[email |-> "a@b.com", phone |-> "",
                              description |-> "Hello, world"]>>)
    /\ (Done /\ csvText = "Emails,Description\na@b.com,\"Quote \"\"here\"\"\"\n") =>
          /\ parsed.kind = "return" /\ Len(parsed.records) = 1
          /\ parsed.records[1].description = "Quote \"here\""

C6_QuotedFieldsLiteral == [][ScanChar => C6_Step]_vars /\ []C6_Examples

\* a quoted field that holds a delimiter, a line break and a doubled quote
C6_Witness ==
    /\ cpc = "scan" /\ scan.inQuotes /\ delimiter = ","
    /\ includes(scan.col, ",") /\ includes(scan.col, "\n") /\ includes(scan.col, "\"")
    /\ scan.row # <<>>

\* C7: a table whose fields hold no quote, CR or LF gives the same records
\* or the same error whether its rows end in LF, CR or CRLF
PlainTable ==
    /\ source.kind = "table"
    /\ \A r \in {source.header} \cup {source.rows[k] : k \in DOMAIN source.rows} :
          \A k \in DOMAIN r :
             ~includes(r[k], "\"") /\ ~includes(r[k], "\r") /\ ~includes(r[k], "\n")

C7_LineEndingsAgree ==
    (Done /\ PlainTable) =>
        parsed = parseCSV(writeTable(source.header, source.rows, source.delim,
                                     "\n", source.final))

\* C8: every record has email, phone and description as strings, and a
\* field whose header index is not less than the row's length is ""
C8_MissingColumnsEmpty ==
    (Done /\ parsed.kind = "return" /\ parsed.records # <<>>) =>
        /\ Len(parsed.records) = Len(KeptRows)
        /\ \A k \in DOMAIN parsed.records :
              LET rec == parsed.records[k]
                  Missing(name) == HeaderIndex(name) >= Len(KeptRows[k])
              IN  /\ {"email", "phone", "description"} \subseteq DOMAIN rec
                  /\ Missing("emails") => rec["email"] = ""
                  /\ Missing("description") => rec["description"] = ""
                  /\ (Missing("phone numbers") \/ HeaderIndex("phone numbers") = -1)
                        => rec["phone"] = ""

\* C9 as claimed: every record has a non-empty email and description
C9_EmailAndDescriptionNonEmpty ==
    (Done /\ parsed.kind = "return") =>
        \A k \in DOMAIN parsed.records :
            parsed.records[k]["email"] # "" /\ parsed.records[k]["description"] # ""

\* C9 as amended: email and description are trimmed strings, non-empty
\* exactly when the row has a cell in that column that is not blank; a row
\* without one is emitted with ""
C9_TrimmedAndEmptyWhenBlank ==
    (Done /\ parsed.kind = "return" /\ parsed.records # <<>>) =>
        /\ Len(parsed.records) = Len(KeptRows)
        /\ \A k \in DOMAIN parsed.records :
              LET rec == parsed.records[k]
                  r == KeptRows[k]
                  Blank(name) ==
                      \/ HeaderIndex(name) >= Len(r)
                      \/ \A p \in 1..Len(r[HeaderIndex(name) + 1]) :
                            isSpace(SubSeq(r[HeaderIndex(name) + 1], p, p))
                  Trimmed(v) == v = "" \/ (~isSpace(Head(v)) /\ ~isSpace(charAt(v, Len(v) - 1)))
              IN  /\ {"email", "description"} \subseteq DOMAIN rec
                  /\ Trimmed(rec["email"]) /\ Trimmed(rec["description"])
                  /\ (rec["email"] = "") <=> Blank("emails")
                  /\ (rec["description"] = "") <=> Blank("description")

\* a record without a description next to one with a padded email
C9_Witness ==
    /\ Done /\ parsed.kind = "return" /\ Len(parsed.records) = 2
    /\ parsed.records[1]["description"] = "" /\ parsed.records[1]["email"] = "c@d.org"
    /\ parsed.records[2]["email"] = "e@f.net"

\* a table with the header Emails,Description, rows of two cells, at least
\* one of them, written with rows that end in LF or CRLF
TwoColumnTable ==
    /\ source.kind = "table"
    /\ source.header = <<"Emails", "Description">>
    /\ source.rows # <<>>
    /\ \A k \in DOMAIN source.rows : Len(source.rows[k]) = 2
    /\ source.eol \in {"\n", "\r\n"}

FirstLineCount(ch) ==
    LET lfs == {p \in 0..(Len(csvText) - 1) : charAt(csvText, p) = "\n"}
        end == IF lfs = {} THEN Len(csvText) ELSE CHOOSE p \in lfs : \A q \in lfs : p <= q
    IN  Cardinality({p \in 0..(end - 1) : charAt(csvText, p) = ch})

C14_Choice ==
    (cpc = "scan" /\ scan = scanInit) =>
        LET c == FirstLineCount(",")
            s == FirstLineCount(";")
            t == FirstLineCount("\t")
        IN  /\ delimiter = ";" <=> (s > c /\ s > t)
            /\ delimiter = "\t" <=> (t > c /\ t > s)
            /\ delimiter = "," <=> ~(s > c /\ s > t) /\ ~(t > c /\ t > s)

C14_Step ==
    LET char == charAt(csvText, scan.i)
    IN  /\ delimiter' = delimiter
        /\ (~scan.inQuotes /\ char = delimiter) =>
              /\ scan'.row = Append(scan.row, scan.col) /\ scan'.col = ""
              /\ scan'.result = scan.result
        /\ (~scan.inQuotes /\ char \in {",", ";", "\t"} \ {delimiter}) =>
              /\ scan'.col = scan.col \o char
              /\ scan'.row = scan.row /\ scan'.result = scan.result

EndsInLineBreak == csvText # "" /\ charAt(csvText, Len(csvText) - 1) \in {"\r", "\n"}

C18_TrailingLineFeed ==
    (Done /\ ~EndsInLineBreak /\ ~scan.inQuotes) =>
        parsed = parseCSV(csvText \o "\n")

\* C19: with a valid header, the records are, in input order, one for each
\* row after the header that is not a single empty field, and none for the
\* header or for a row that is a single empty field; a record's email,
\* phone and description are the row's cells at the positions of the
\* 'emails', 'phone numbers' and 'description' headers, trimmed
ValidHeader ==
    /\ Len(TokenRows) >= 1
    /\ HeaderIndex("emails") # -1 /\ HeaderIndex("description") # -1

C19_OneRecordPerRow ==
    (Done /\ ValidHeader) =>
        /\ parsed.kind = "return"
        /\ Len(parsed.records) = Len(KeptRows)
        /\ \A k \in DOMAIN KeptRows :
              LET r == KeptRows[k]
                  rec == parsed.records[k]
                  Has(name) == HeaderIndex(name) # -1 /\ HeaderIndex(name) < Len(r)
                  Cell(name) == trim(r[HeaderIndex(name) + 1])
              IN  /\ rec["email"] = IF Has("emails") THEN Cell("emails") ELSE ""
                  /\ rec["description"] =
                        IF Has("description") THEN Cell("description") ELSE ""
                  /\ Has("phone numbers") => rec["phone"] = Cell("phone numbers")

\* a table whose description column comes first and whose e-mail column comes
\* last, with a row that is a single empty field before a row of three cells
C19_Witness ==
    /\ Done /\ ValidHeader /\ source.kind = "table"
    /\ HeaderIndex("description") = 0 /\ HeaderIndex("emails") = 2
    /\ Len(TokenRows) = 3 /\ TokenRows[2] = <<"">>
    /\ Len(parsed.records) = 1
    /\ parsed.records[1]["description"] = "e@f.net"
    /\ parsed.records[1]["phone"] = "555 1234"

(***************************************************************************)
(* Properties of the dashboard                                             *)
(***************************************************************************)
\* C17: every job with status completed, the jobs made so by a confirmed
\* regenerateEmailForSkipped included, is entry-level and has an email
\* subject and an email body that are not empty
C17_CompletedHasEmail ==
    \A k \in DOMAIN appJobs :
        appJobs[k]["status"] = "completed" =>
            /\ appJobs[k]["isEntryLevel"]
            /\ {"emailSubject", "emailBody"} \subseteq DOMAIN appJobs[k]
            /\ appJobs[k]["emailSubject"] # "" /\ appJobs[k]["emailBody"] # ""

CountWithStatus(js, st) == Cardinality({k \in DOMAIN js : js[k]["status"] = st})

\* C22: no counter is ever negative, and whenever no analysis run is in
\* progress stats.total is the number of jobs, stats.entryLevel the number
\* of 'completed' jobs and stats.skipped the number of 'skipped' jobs
C22_CountersMatchJobs ==
    /\ stats.total >= 0 /\ stats.entryLevel >= 0 /\ stats.skipped >= 0
    /\ ~isProcessing =>
          /\ stats.total = Len(appJobs)
          /\ stats.entryLevel = CountWithStatus(appJobs, "completed")
          /\ stats.skipped = CountWithStatus(appJobs, "skipped")

(***************************************************************************)
(* Properties of the API-backed component                                  *)
(***************************************************************************)
\* the error's message contains '429' or 'RESOURCE_EXHAUSTED'
RateLimited(e) ==
    /\ "message" \in DOMAIN e
    /\ \E p \in 1..Len(e["message"]) :
          \/ p + 2 <= Len(e["message"]) /\ SubSeq(e["message"], p, p + 2) = "429"
          \/ /\ p + 17 <= Len(e["message"])
             /\ SubSeq(e["message"], p, p + 17) = "RESOURCE_EXHAUSTED"


\* the positions in the list of the job with this id
ListedAs(js, id) == {k \in DOMAIN js : js[k]["id"] = id}

\* at most 4 calls for a job; the n-th call, for n > 1, follows a rate-limit
\* error and waits of 4 s, 8 s and 16 s before the 2nd, 3rd and 4th call
C20_Calls ==
    \A r \in Runs :
        /\ attempts[r] <= 4
        /\ (apc[r] = "await" /\ attempts[r] >= 2) =>
              /\ RateLimited(lastError[r])
              /\ waited[r] = SubSeq(<<4000, 8000, 16000>>, 1, attempts[r] - 1)

\* a call that rejects is retried when the error is a rate-limit error and
\* the call was not the 4th; otherwise the job, if still listed, becomes
\* 'error'
C20_Rejected ==
    \A r \in Runs :
        (apc[r] = "await" /\ apc'[r] \in {"backoff", "after"}) =>
            IF RateLimited(lastError'[r]) /\ attempts[r] < 4
            THEN /\ apc'[r] = "backoff"
                 /\ apiJobs' = apiJobs
            ELSE /\ apc'[r] = "after" /\ ~success'[r]
                 /\ \A k \in ListedAs(apiJobs', currentJob(r)["id"]) :
                       apiJobs'[k]["status"] = "error"

\* after a job that became 'error' no call is made for it again and the
\* loop moves to the next job
C20_Continues ==
    \A r \in Runs :
        (apc[r] = "after" /\ ~success[r] /\ apc'[r] # apc[r]) =>
            /\ apc'[r] = "for" /\ cursor'[r] = cursor[r] + 1
            /\ attempts'[r] <= attempts[r]
            /\ apiJobs' = apiJobs

\* C20: in the API-backed processAllJobs a job's analysis call is made at
\* most 4 times; a call is repeated only after an error whose message
\* contains '429' or 'RESOURCE_EXHAUSTED', after waiting 4 s, 8 s and 16 s
\* before the 2nd, 3rd and 4th call; any other error, or a rate-limit error
\* on the 4th call, sets the job's status to 'error' without further calls,
\* and the loop continues with the next job
C20_RetryPolicy ==
    /\ []C20_Calls
    /\ [][C20_Rejected /\ C20_Continues]_vars

\* the first of two jobs became 'error' on a rate-limit error of its 4th
\* call, after waits of 4 s, 8 s and 16 s
C20_Witness ==
    /\ apc[1] = "after" /\ cursor[1] = 1 /\ Len(snapshot[1]) = 2
    /\ attempts[1] = 4 /\ waited[1] = <<4000, 8000, 16000>>
    /\ RateLimited(lastError[1])
    /\ Len(apiJobs) = 2 /\ apiJobs[1]["status"] = "error"

\* the runs of processAllJobs that are under way
ActiveRuns == {r \in Runs : apc[r] # "idle"}

\* the job at position k of the list that run r closed over was 'pending' or
\* 'error' when the run started
Eligible(r, k) == snapshot[r][k]["status"] \in {"pending", "error"}

\* the jobs run r has yet to take up are as they were when it started, and
\* the jobs it has left behind have an outcome
InListOrder(r) ==
    \A k \in DOMAIN snapshot[r] :
        Eligible(r, k) =>
            \A j \in ListedAs(apiJobs, snapshot[r][k]["id"]) :
                /\ (k > cursor[r] \/ (k = cursor[r] /\ apc[r] = "for")) =>
                      apiJobs[j] = snapshot[r][k]
                /\ k < cursor[r] =>
                      apiJobs[j]["status"] \in {"completed", "skipped", "error"}

\* C21: while a run of processAllJobs is in progress a further invocation
\* starts nothing, so that, whatever the user does meanwhile (start, upload,
\* clear, edit), at most one run is under way, at most one job has status
\* 'analyzing', and the jobs are analysed in the order of the list
C21_OneJobAtATime ==
    /\ Cardinality(ActiveRuns) <= 1
    /\ apiProcessing <=> ActiveRuns # {}
    /\ CountWithStatus(apiJobs, "analyzing") <= 1
    /\ \A r \in ActiveRuns : InListOrder(r)

\* the second job of the list is being analysed, after the first one was
\* completed and its email edited
C21_Witness ==
    /\ apiProcessing /\ apc[1] = "await" /\ cursor[1] = 2
    /\ Len(apiJobs) = 2
    /\ apiJobs[1]["status"] = "completed" /\ apiJobs[1]["emailBody"] = "Edited"
    /\ apiJobs[2]["status"] = "analyzing"

\* when a run ends, every job that was 'pending' or 'error' when it started
\* and is still listed has an outcome and is not marked as processing
C23_AtTheEnd ==
    \A r \in Runs :
        (apc[r] # "idle" /\ apc'[r] = "idle") =>
            /\ ~apiProcessing'
            /\ \A k \in DOMAIN snapshot[r] :
                  Eligible(r, k) =>
                      \A j \in ListedAs(apiJobs', snapshot[r][k]["id"]) :
                          /\ apiJobs'[j]["status"] \in {"completed", "skipped", "error"}
                          /\ apiJobs'[j]["processing"] = FALSE

\* no step of a run changes a job that was 'completed' or 'skipped' when the
\* run started
C23_OthersUntouched ==
    \A r \in Runs :
        (apc[r] # "idle" /\ (apc'[r] # apc[r] \/ cursor'[r] # cursor[r])) =>
            \A k \in DOMAIN snapshot[r] :
                snapshot[r][k]["status"] \in {"completed", "skipped"} =>
                    \A j \in ListedAs(apiJobs, snapshot[r][k]["id"]) :
                        j \in DOMAIN apiJobs' /\ apiJobs'[j] = apiJobs[j]

\* C23: every run of processAllJobs ends, provided every analysis call
\* returns or throws: isProcessing becomes false again, and then every job
\* that was 'pending' or 'error' when the run started and is still listed is
\* 'completed', 'skipped' or 'error' with processing false, while the run
\* has changed no job that was 'completed' or 'skipped' when it started
C23_RunEnds ==
    /\ apiProcessing ~> ~apiProcessing
    /\ [][C23_AtTheEnd /\ C23_OthersUntouched]_vars

\* a run has ended over two jobs that are both still listed: the first was
\* judged not entry-level, the call for the second failed for good
C23_Witness ==
    /\ ~apiProcessing /\ ActiveRuns = {}
    /\ Len(apiJobs) = 2 /\ apiUploads = 1
    /\ apiJobs[1]["status"] = "skipped" /\ apiJobs[2]["status"] = "error"
    /\ ~apiJobs[1]["processing"] /\ ~apiJobs[2]["processing"]

(***************************************************************************)
(* Properties of the auth module                                           *)
(***************************************************************************)
HasAt(e) == \E p \in 1..Len(e) : SubSeq(e, p, p) = "@"

\* the positions of the stored accounts whose email is e
AccountsOf(e) == {i \in DOMAIN users : users[i].email = e}

C24_Effect(e, pw, prof) ==
    LET n == normalise(e)
        rejected == \/ n = "" \/ ~HasAt(n)
                    \/ Len(pw) < 6
                    \/ AccountsOf(n) # {}
    IN  IF rejected
        THEN /\ ret'.success = FALSE
             /\ "error" \in DOMAIN ret' /\ ret'.error # ""
             /\ users' = users /\ session' = session
        ELSE /\ ret'.success = TRUE
             /\ Len(users') = Len(users) + 1
             /\ SubSeq(users', 1, Len(users)) = users
             /\ users'[Len(users')].email = n
             /\ users'[Len(users')].password = pw
             /\ session' # Null /\ session'.email = n
             /\ session'.expiresAt = now + 9000000

\* C24: a signUp with an email that is empty or without '@' once lower-cased
\* and trimmed, with a password shorter than 6, or for an email that has an
\* account, returns success false with an error and leaves accounts and
\* session as they were; any other signUp adds one account and creates a
\* session for it
C24_FailedSignUpChangesNothing ==
    [][\A in \in SignUpInputs :
          SignUpWith(in[1], in[2], in[3]) => C24_Effect(in[1], in[2], in[3])]_vars

\* a signUp was refused for an email that has an account, with a session
\* stored and two accounts registered
C24_Witness ==
    /\ ret = Failure("An account with this email already exists")
    /\ Len(users) = 2 /\ session # Null /\ session.email = "x@y.z"

C25_Effect(e, pw) ==
    LET n == normalise(e)
        matching == {i \in AccountsOf(n) : users[i].password = pw}
    IN  /\ users' = users
        /\ IF matching # {}
           THEN \E i \in matching :
                   /\ ret'.success = TRUE /\ ret'.profile = users[i].profile
                   /\ session' = [email |-> users[i].email,
                                  expiresAt |-> now + 9000000,
                                  profile |-> users[i].profile]
           ELSE /\ ret'.success = FALSE
                /\ ret'.error = IF AccountsOf(n) = {}
                                 THEN "No account found with this email"
                                 ELSE "Incorrect password"
                /\ session' = session

\* C25: signIn succeeds exactly when an account exists for the lower-cased,
\* trimmed email and the password equals the stored one, and then the
\* session carries that account's email and profile; a failed signIn leaves
\* the session and the accounts as they were
C25_SignInMatchesAccount ==
    [][\A in \in SignInInputs : SignInWith(in[1], in[2]) => C25_Effect(in[1], in[2])]_vars

\* a signIn with a wrong password, made while another account's session is
\* stored
C25_Witness ==
    /\ ret = Failure("Incorrect password")
    /\ session # Null /\ session.email = "x@y.z" /\ AccountsOf("a@b.c") # {}

\* C26: at every time, the instant now = expiresAt included, isSessionValid()
\* returns true exactly when getSessionData() returns a session
C26_ValidIffSession ==
    session # Null =>
        (isSessionValid(session, now).value <=> getSessionData(session, now).value # Null)

\* what updateUserProfile does to the accounts, and when it returns false
C27_Accounts(e, prof) ==
    LET n == normalise(e)
    IN  IF AccountsOf(n) = {}
        THEN ret' = ReturnedValue(FALSE) /\ users' = users /\ session' = session
        ELSE /\ ret' = ReturnedValue(TRUE)
             /\ Len(users') = Len(users)
             /\ \A i \in DOMAIN users :
                   /\ users'[i].email = users[i].email
                   /\ users'[i].password = users[i].password
                   /\ users'[i].createdAt = users[i].createdAt
                   /\ users'[i].profile = IF users[i].email = n
                                           THEN Merge(prof, [email |-> n])
                                           ELSE users[i].profile

Expired == session # Null /\ session.expiresAt < now

\* the session is rewritten only for a stored, not expired session of the
\* same email, and no session appears where none is stored
C27_Rewrites(e) ==
    /\ (session' # Null /\ session' # session) =>
          (session # Null /\ ~Expired /\ session.email = normalise(e))
    /\ session = Null => session' = Null

\* C27 as claimed: ... and a session that belongs to another email is never
\* changed
C27_OthersSessionUntouched ==
    [][\A in \in UpdateInputs :
          UpdateUserProfileWith(in[1], in[2]) =>
             /\ C27_Accounts(in[1], in[2])
             /\ C27_Rewrites(in[1])
             /\ (session # Null /\ session.email # normalise(in[1])) =>
                   session' = session]_vars

\* C27 as amended: updateUserProfile returns false and changes nothing for
\* an email without account; for an account it replaces that account's
\* profile only; it rewrites the session only when a session of that email
\* is stored and not expired, never creates one where none is stored, and
\* leaves another email's session as it is unless that session has expired,
\* in which case the call removes it
C27_OwnAccountOnly ==
    [][\A in \in UpdateInputs :
          UpdateUserProfileWith(in[1], in[2]) =>
             /\ C27_Accounts(in[1], in[2])
             /\ C27_Rewrites(in[1])
             /\ (session # Null /\ session.email # normalise(in[1])) =>
                   session' = IF Expired /\ AccountsOf(normalise(in[1])) # {}
                              THEN Null ELSE session]_vars

\* the profile of one of two accounts was replaced while the other account's
\* session, not expired, is stored
C27_Witness ==
    /\ ret = ReturnedValue(TRUE) /\ Len(users) = 2
    /\ session # Null /\ session.email = "x@y.z" /\ ~Expired
    /\ \E i \in AccountsOf("a@b.c") :
          users[i].profile = [name |-> "Ravi", email |-> "a@b.c"]
    /\ \E i \in AccountsOf("x@y.z") : users[i].profile = session.profile

\* C28: no two stored accounts have emails that are equal once lower-cased
\* and trimmed, and an account's password is the one given at the first
\* successful signUp for its email
C28_OneAccountPerEmail ==
    /\ \A i, j \in DOMAIN users :
          i # j => normalise(users[i].email) # normalise(users[j].email)
    /\ \A i \in DOMAIN users :
          /\ normalise(users[i].email) \in DOMAIN firstPassword
          /\ users[i].password = firstPassword[normalise(users[i].email)]

\* a second signUp for an email was refused and the account keeps its
\* password, with another account registered after it
C28_Witness ==
    /\ ret = Failure("An account with this email already exists")
    /\ Len(users) = 2 /\ users[1].email = "a@b.c" /\ users[1].password = "secret1"
    /\ session = Null

\* C30: a stored session has the email of a registered account, that
\* account's stored profile, and a profile whose email is the account's
\* lower-cased, trimmed email
C30_SessionMatchesAccount ==
    session # Null =>
        \E i \in DOMAIN users :
            /\ users[i].email = session.email
            /\ session.profile = users[i].profile
            /\ session.profile["email"] = normalise(users[i].email)

\* the session of an account whose profile was replaced after the session
\* was written
C30_Witness ==
    /\ session # Null /\ session.email = "a@b.c" /\ ret = ReturnedValue(TRUE)
    /\ session.profile = [name |-> "Ravi", email |-> "a@b.c"]
    /\ writtenAt > 0 /\ AccountsOf("a@b.c") # {}
    /\ users[1].createdAt = 0 /\ users[1].email = "a@b.c"

====
